---- MODULE Spec2Model ----
(***************************************************************************)
(* Model of web-fetch-md (src/src/web-fetch-md/src/fetchmd.ts): the fetch  *)
(* cascade of main(), the transport helpers it awaits, and the pure text   *)
(* functions (classifier, candidate generator, normalizer).                *)
(*                                                                         *)
(* Text is a sequence of one-character strings, so that the regular        *)
(* expressions and string methods of the source are computed character by  *)
(* character.                                                              *)
(***************************************************************************)
EXTENDS Integers, Sequences, FiniteSets, TLC

(***************************************************************************)
(* Characters and JavaScript string primitives                             *)
(***************************************************************************)

\* JavaScript white space (\s, trim) among the characters of the model.
WhiteSpace == {" ", "\t", "\n", "\r", "\f"}

\* Line terminators: where ^ and $ match under the m flag.
LineTerminators == {"\n", "\r"}

\* [ \t] of normalizeMarkdown.
SpaceTab == {" ", "\t"}

\* the backtick character (it cannot be written inside a string here)
Backtick == "BACKTICK"

Digits == {"0", "1", "2", "3", "4", "5", "6", "7", "8", "9"}

UpperToLower ==
  [c \in {"A", "B", "C", "D", "E", "F", "G", "H", "I", "J", "K", "L", "M",
          "N", "O", "P", "Q", "R", "S", "T", "U", "V", "W", "X", "Y", "Z"} |->
     CASE c = "A" -> "a" [] c = "B" -> "b" [] c = "C" -> "c" [] c = "D" -> "d"
       [] c = "E" -> "e" [] c = "F" -> "f" [] c = "G" -> "g" [] c = "H" -> "h"
       [] c = "I" -> "i" [] c = "J" -> "j" [] c = "K" -> "k" [] c = "L" -> "l"
       [] c = "M" -> "m" [] c = "N" -> "n" [] c = "O" -> "o" [] c = "P" -> "p"
       [] c = "Q" -> "q" [] c = "R" -> "r" [] c = "S" -> "s" [] c = "T" -> "t"
       [] c = "U" -> "u" [] c = "V" -> "v" [] c = "W" -> "w" [] c = "X" -> "x"
       [] c = "Y" -> "y" [] c = "Z" -> "z"]

LowerLetters == {UpperToLower[c] : c \in DOMAIN UpperToLower}

\* \w of a regular expression.
WordChars == DOMAIN UpperToLower \cup LowerLetters \cup Digits \cup {"_"}

Min(a, b) == IF a < b THEN a ELSE b

Max(a, b) == IF a > b THEN a ELSE b

ToLowerCase(s) ==
  [i \in 1..Len(s) |-> IF s[i] \in DOMAIN UpperToLower THEN UpperToLower[s[i]] ELSE s[i]]

\* s.slice(0, n)
SliceTo(s, n) == SubSeq(s, 1, Min(Max(0, n), Len(s)))

\* the pattern p occurs in s at index i
OccursAt(s, p, i) ==
  /\ i >= 1
  /\ i + Len(p) - 1 <= Len(s)
  /\ \A k \in 1..Len(p) : s[i + k - 1] = p[k]

StartsWith(s, p) == OccursAt(s, p, 1)

EndsWith(s, p) == Len(p) <= Len(s) /\ OccursAt(s, p, Len(s) - Len(p) + 1)

Includes(s, p) == \E i \in 1..(Len(s) + 1) : OccursAt(s, p, i)

\* index of the first / last character that is not white space
FirstNonWs(s) ==
  IF \E i \in 1..Len(s) : s[i] \notin WhiteSpace
  THEN CHOOSE i \in 1..Len(s) :
         s[i] \notin WhiteSpace /\ \A j \in 1..(i - 1) : s[j] \in WhiteSpace
  ELSE Len(s) + 1

LastNonWs(s) ==
  IF \E i \in 1..Len(s) : s[i] \notin WhiteSpace
  THEN CHOOSE i \in 1..Len(s) :
         s[i] \notin WhiteSpace /\ \A j \in (i + 1)..Len(s) : s[j] \in WhiteSpace
  ELSE 0

TrimStart(s) == SubSeq(s, FirstNonWs(s), Len(s))

Trim(s) == SubSeq(s, FirstNonWs(s), LastNonWs(s))

\* the characters of s at the indexes in K, in order
RECURSIVE PickFrom(_, _, _)
PickFrom(s, K, i) ==
  IF i > Len(s) THEN <<>>
  ELSE (IF i \in K THEN <<s[i]>> ELSE <<>>) \o PickFrom(s, K, i + 1)

Pick(s, K) == PickFrom(s, K, 1)

\* s.replace(/\r\n/g, "\n")
ReplaceCrLf(s) ==
  Pick(s, {i \in 1..Len(s) : ~(s[i] = "\r" /\ i < Len(s) /\ s[i + 1] = "\n")})

\* s.split("\n")
RECURSIVE SplitLines(_)
SplitLines(s) ==
  IF \E i \in 1..Len(s) : s[i] = "\n"
  THEN LET i == CHOOSE k \in 1..Len(s) :
                  s[k] = "\n" /\ \A j \in 1..(k - 1) : s[j] # "\n"
       IN  <<SubSeq(s, 1, i - 1)>> \o SplitLines(SubSeq(s, i + 1, Len(s)))
  ELSE <<s>>

\* lines.join("\n")
RECURSIVE JoinLines(_)
JoinLines(lines) ==
  IF Len(lines) = 0 THEN <<>>
  ELSE IF Len(lines) = 1 THEN lines[1]
  ELSE lines[1] \o <<"\n">> \o JoinLines(Tail(lines))

\* i is the start of a line of s (^ under the m flag)
LineStart(s, i) == i = 1 \/ (i >= 2 /\ i <= Len(s) + 1 /\ s[i - 1] \in LineTerminators)

\* i is the position after the end of a line of s ($ under the m flag)
LineEnd(s, i) == i = Len(s) + 1 \/ (i >= 1 /\ i <= Len(s) /\ s[i] \in LineTerminators)

\* s[a..b] is all white space
AllWs(s, a, b) == \A k \in a..b : s[k] \in WhiteSpace

(***************************************************************************)
(* Classifier                                                              *)
(***************************************************************************)

HtmlScanChars == 2000

MarkdownScanChars == 4000

\* variant: <head or <body without the word boundary
OpensHeadOrBody_NoBoundary(t) ==
  \E i \in 1..Len(t) :
    \/ OccursAt(t, <<"<", "h", "e", "a", "d">>, i)
    \/ OccursAt(t, <<"<", "b", "o", "d", "y">>, i)

\* /<(head|body)\b/
OpensHeadOrBody(t) ==
  \E i \in 1..Len(t) :
    /\ \/ OccursAt(t, <<"<", "h", "e", "a", "d">>, i)
       \/ OccursAt(t, <<"<", "b", "o", "d", "y">>, i)
    /\ (i + 5 > Len(t) \/ t[i + 5] \notin WordChars)

\* /<\/(html|head|body)>/
ClosesHtmlHeadOrBody(t) ==
  \/ Includes(t, <<"<", "/", "h", "t", "m", "l", ">">>)
  \/ Includes(t, <<"<", "/", "h", "e", "a", "d", ">">>)
  \/ Includes(t, <<"<", "/", "b", "o", "d", "y", ">">>)

looksLikeHtml(s) ==
  LET t == ToLowerCase(SliceTo(TrimStart(s), HtmlScanChars))
  IN  \/ StartsWith(t, <<"<", "!", "d", "o", "c", "t", "y", "p", "e", " ", "h", "t", "m", "l">>)
      \/ StartsWith(t, <<"<", "h", "t", "m", "l">>)
      \/ StartsWith(t, <<"<", "?", "x", "m", "l">>)
      \/ OpensHeadOrBody(t)
      \/ (StartsWith(t, <<"<">>) /\ ClosesHtmlHeadOrBody(t))

\* /^\s*X\s+\S+/m where X ends at index e and starts at index b
LineItem(t, b, e) ==
  /\ \E q \in 1..b : LineStart(t, q) /\ AllWs(t, q, b - 1)
  /\ \E n \in (e + 2)..Len(t) : AllWs(t, e + 1, n - 1) /\ t[n] \notin WhiteSpace

\* /^\s*#\s+\S+/m
HasAtxHeading(t) == \E i \in 1..Len(t) : t[i] = "#" /\ LineItem(t, i, i)

\* /^\s*---\s*$/m
HasRule(t) ==
  \E i \in 1..Len(t) :
    /\ OccursAt(t, <<"-", "-", "-">>, i)
    /\ \E q \in 1..i : LineStart(t, q) /\ AllWs(t, q, i - 1)
    /\ \E n \in (i + 3)..(Len(t) + 1) : AllWs(t, i + 3, n - 1) /\ LineEnd(t, n)

\* the fence marker: three backticks
HasFence(t) == Includes(t, <<Backtick, Backtick, Backtick>>)

\* /^\s*[-*+]\s+\S+/m
HasBullet(t) == \E i \in 1..Len(t) : t[i] \in {"-", "*", "+"} /\ LineItem(t, i, i)

\* /^\s*\d+\.\s+\S+/m
HasNumbered(t) ==
  \E i \in 1..Len(t) :
    /\ t[i] \in Digits
    /\ \E d \in i..Len(t) :
         /\ \A k \in i..d : t[k] \in Digits
         /\ d + 1 <= Len(t) /\ t[d + 1] = "."
         /\ LineItem(t, i, d + 1)

\* /\[[^\]]+\]\([^)]+\)/
HasInlineLink(t) ==
  \E i \in 1..Len(t) :
    /\ t[i] = "["
    /\ \E j \in (i + 2)..(Len(t) - 3) :
         /\ \A m \in (i + 1)..(j - 1) : t[m] # "]"
         /\ t[j] = "]" /\ t[j + 1] = "("
         /\ \E k \in (j + 3)..Len(t) :
              /\ \A m \in (j + 2)..(k - 1) : t[m] # ")"
              /\ t[k] = ")"

\* variant: the whole text is scanned
looksLikeMarkdown_WholeText(s) ==
  \/ HasAtxHeading(s)
  \/ HasRule(s)
  \/ HasFence(s)
  \/ HasBullet(s)
  \/ HasNumbered(s)
  \/ HasInlineLink(s)

looksLikeMarkdown(s) ==
  LET t == SliceTo(s, MarkdownScanChars)
  IN  \/ HasAtxHeading(t)
      \/ HasRule(t)
      \/ HasFence(t)
      \/ HasBullet(t)
      \/ HasNumbered(t)
      \/ HasInlineLink(t)

isMarkdownContentType(contentType) ==
  LET ct == ToLowerCase(contentType)
  IN  \/ Includes(ct, <<"t", "e", "x", "t", "/", "m", "a", "r", "k", "d", "o", "w", "n">>)
      \/ Includes(ct, <<"t", "e", "x", "t", "/", "x", "-", "m", "a", "r", "k", "d", "o", "w", "n">>)
      \/ Includes(ct, <<"a", "p", "p", "l", "i", "c", "a", "t", "i", "o", "n", "/",
                        "m", "a", "r", "k", "d", "o", "w", "n">>)
      \/ Includes(ct, <<"a", "p", "p", "l", "i", "c", "a", "t", "i", "o", "n", "/",
                        "x", "-", "m", "a", "r", "k", "d", "o", "w", "n">>)

isHtmlContentType(contentType) ==
  LET ct == ToLowerCase(contentType)
  IN  \/ Includes(ct, <<"t", "e", "x", "t", "/", "h", "t", "m", "l">>)
      \/ Includes(ct, <<"a", "p", "p", "l", "i", "c", "a", "t", "i", "o", "n", "/",
                        "x", "h", "t", "m", "l", "+", "x", "m", "l">>)

isTextContentType(contentType) ==
  LET ct == ToLowerCase(contentType)
  IN  \/ StartsWith(ct, <<"t", "e", "x", "t", "/">>)
      \/ Includes(ct, <<"a", "p", "p", "l", "i", "c", "a", "t", "i", "o", "n", "/", "x", "m", "l">>)

(***************************************************************************)
(* Normalizer                                                              *)
(***************************************************************************)

\* .replace(/[ \t]+$/gm, ""): a run of blanks is removed when a line ends after it
StripLineEnds(s) ==
  Pick(s, {i \in 1..Len(s) :
             ~(/\ s[i] \in SpaceTab
               /\ \E j \in i..Len(s) :
                    /\ \A m \in i..j : s[m] \in SpaceTab
                    /\ LineEnd(s, j + 1))})

\* .replace(/\n{3,}/g, "\n\n")
CollapseNewlines(s) ==
  Pick(s, {i \in 1..Len(s) :
             ~(i >= 3 /\ s[i] = "\n" /\ s[i - 1] = "\n" /\ s[i - 2] = "\n")})

normalizeMarkdown(md) ==
  Trim(CollapseNewlines(StripLineEnds(ReplaceCrLf(md)))) \o <<"\n">>

NoiseWords ==
  { <<"c", "o", "p", "y">>,
    <<"c", "o", "p", "y", " ", "p", "a", "g", "e">>,
    <<"c", "o", "p", "i", "e", "d">>,
    <<"c", "o", "p", "i", "e", "d", "!">>,
    <<"c", "o", "p", "y", " ", "t", "o", " ", "c", "l", "i", "p", "b", "o", "a", "r", "d">>,
    <<"l", "o", "a", "d", "i", "n", "g", ".", ".", ".">> }

\* the loop of stripUiNoiseMarkdown over lines[i..], entered with inFence
RECURSIVE StripLoop(_, _, _)
StripLoop(lines, i, inFence) ==
  IF i > Len(lines) THEN <<>>
  ELSE LET line == lines[i]
           trimmed == Trim(line)
       IN  IF StartsWith(trimmed, <<Backtick, Backtick, Backtick>>)
           THEN <<line>> \o StripLoop(lines, i + 1, ~inFence)
           ELSE IF ~inFence /\ ToLowerCase(trimmed) \in NoiseWords
           THEN StripLoop(lines, i + 1, inFence)
           ELSE <<line>> \o StripLoop(lines, i + 1, inFence)

\* variant: the loop is entered as if inside a fence
stripUiNoiseMarkdown_StartsInFence(md) ==
  JoinLines(StripLoop(SplitLines(ReplaceCrLf(md)), 1, TRUE))

\* variant: the lines that are kept are trimmed
stripUiNoiseMarkdown_TrimsLines(md) ==
  LET out == StripLoop(SplitLines(ReplaceCrLf(md)), 1, FALSE)
  IN  JoinLines([i \in 1..Len(out) |-> Trim(out[i])])

stripUiNoiseMarkdown(md) ==
  JoinLines(StripLoop(SplitLines(ReplaceCrLf(md)), 1, FALSE))

(***************************************************************************)
(* Candidate Generator                                                     *)
(***************************************************************************)

\* A URL is the record of the fields of a parsed URL object; its string form
\* is identified with the record.  An input without a scheme does not parse.
Url(protocol, pathname, search, hash) ==
  [protocol |-> protocol, host |-> "a.com", pathname |-> pathname,
   search |-> search, hash |-> hash]

\* variant: every URL that parses is let through
isHttpUrl_AnyScheme(s) == s.protocol # ""

isHttpUrl(s) ==
  IF s.protocol = "" THEN FALSE
  ELSE s.protocol = "http:" \/ s.protocol = "https:"

\* variant: the relative reference is resolved against the root
ResolveRelative_FromRoot(rel, u) ==
  [u EXCEPT !.pathname = <<"/">> \o rel, !.search = "", !.hash = ""]

\* new URL(rel, u): rel replaces what follows the last "/" of u's path
ResolveRelative(rel, u) ==
  LET p == u.pathname
      cut == IF \E i \in 1..Len(p) : p[i] = "/"
             THEN CHOOSE i \in 1..Len(p) : p[i] = "/" /\ \A j \in (i + 1)..Len(p) : p[j] # "/"
             ELSE 0
  IN  [u EXCEPT !.pathname = SubSeq(p, 1, cut) \o rel, !.search = "", !.hash = ""]

\* candidates.add(x) on a Set that keeps insertion order
SetAdd(seq, x) == IF \E i \in 1..Len(seq) : seq[i] = x THEN seq ELSE Append(seq, x)

computeMarkdownSiblingUrls(url) ==
  LET u == [url EXCEPT !.hash = "", !.search = ""]
      pathName == u.pathname
      lower == ToLowerCase(pathName)
      dir == EndsWith(pathName, <<"/">>)
      c1 == IF dir
            THEN SetAdd(SetAdd(<<>>,
                   ResolveRelative(<<"i", "n", "d", "e", "x", ".", "m", "d">>, u)),
                   ResolveRelative(<<"R", "E", "A", "D", "M", "E", ".", "m", "d">>, u))
            ELSE IF ~EndsWith(lower, <<".", "m", "d">>)
            THEN SetAdd(<<>>, [u EXCEPT !.pathname = pathName \o <<".", "m", "d">>])
            ELSE <<>>
  IN  IF ~EndsWith(lower, <<".", "m", "a", "r", "k", "d", "o", "w", "n">>)
      THEN SetAdd(c1, [u EXCEPT !.pathname =
             IF dir
             THEN pathName \o <<"i", "n", "d", "e", "x", ".", "m", "a", "r", "k", "d", "o", "w", "n">>
             ELSE pathName \o <<".", "m", "a", "r", "k", "d", "o", "w", "n">>])
      ELSE c1

(***************************************************************************)
(* Link Absolutizer                                                        *)
(***************************************************************************)

\* the characters of the protocol and host of a URL record (URL.prototype.toString)
ProtocolChars(p) == IF p = "https:" THEN <<"h", "t", "t", "p", "s", ":">> ELSE <<"h", "t", "t", "p", ":">>

HostChars == <<"a", ".", "c", "o", "m">>

\* the schemes whose URLs have a host and a path that is never empty
SpecialSchemes == { <<"h", "t", "t", "p", ":">>, <<"h", "t", "t", "p", "s", ":">>, <<"f", "t", "p", ":">> }

\* index of the ":" that ends the scheme of raw, 0 when raw has no scheme
SchemeEnd(raw) ==
  IF \E k \in 2..Len(raw) :
       /\ raw[k] = ":"
       /\ raw[1] \in DOMAIN UpperToLower \cup LowerLetters
       /\ \A j \in 2..(k - 1) : raw[j] \in (WordChars \ {"_"}) \cup {"+", "-", "."}
  THEN CHOOSE k \in 2..Len(raw) :
         raw[k] = ":" /\ \A j \in 1..(k - 1) : raw[j] # ":"
  ELSE 0

\* a URL that failed to parse (new URL throws)
ParseFailure == [ok |-> FALSE, protocol |-> <<>>, href |-> <<>>]

\* new URL(s) for s that begins with a scheme.  After a special scheme the
\* host follows "//" and ends at the next "/"; an empty host, or one with a
\* space, does not parse; an empty path becomes "/".  Any other scheme
\* parses with the rest kept as it is.
ParseAbsolute(s) ==
  LET k == SchemeEnd(s)
      scheme == ToLowerCase(SubSeq(s, 1, k))
      rest == SubSeq(s, k + 3, Len(s))
      hostEnd == IF \E i \in 1..Len(rest) : rest[i] = "/"
                 THEN (CHOOSE i \in 1..Len(rest) :
                         rest[i] = "/" /\ \A j \in 1..(i - 1) : rest[j] # "/") - 1
                 ELSE Len(rest)
      host == SubSeq(rest, 1, hostEnd)
      path == SubSeq(rest, hostEnd + 1, Len(rest))
  IN  IF scheme \notin SpecialSchemes
      THEN [ok |-> TRUE, protocol |-> scheme, href |-> scheme \o SubSeq(s, k + 1, Len(s))]
      ELSE IF ~OccursAt(s, <<"/", "/">>, k + 1) \/ host = <<>> \/ \E i \in 1..Len(host) : host[i] = " "
      THEN ParseFailure
      ELSE [ok |-> TRUE, protocol |-> scheme,
            href |-> scheme \o <<"/", "/">> \o host \o (IF path = <<>> THEN <<"/">> ELSE path)]

\* new URL(raw, baseUrl) for a trimmed raw and an http(s) base: a raw with a
\* scheme is absolute; "//host/path" takes the scheme of the base, "/path"
\* its origin, anything else replaces what follows the last "/" of its path
ParseUrl(raw, baseUrl) ==
  LET origin == ProtocolChars(baseUrl.protocol) \o <<"/", "/">> \o HostChars
  IN  IF SchemeEnd(raw) > 0 THEN ParseAbsolute(raw)
      ELSE IF StartsWith(raw, <<"/", "/">>)
      THEN ParseAbsolute(ProtocolChars(baseUrl.protocol) \o raw)
      ELSE IF StartsWith(raw, <<"/">>)
      THEN [ok |-> TRUE, protocol |-> ProtocolChars(baseUrl.protocol), href |-> origin \o raw]
      ELSE [ok |-> TRUE, protocol |-> ProtocolChars(baseUrl.protocol),
            href |-> origin \o ResolveRelative(raw, baseUrl).pathname]

\* variant: the scheme of the resolved URL is not looked at
toAbsoluteHttpUrl_AnyScheme(urlLike, baseUrl) ==
  LET raw == Trim(urlLike)
      abs == ParseUrl(raw, baseUrl)
  IN  IF urlLike = <<>> THEN <<>>
      ELSE IF raw = <<>> THEN raw
      ELSE IF StartsWith(raw, <<"#">>) THEN raw
      ELSE IF StartsWith(raw, <<"m", "a", "i", "l", "t", "o", ":">>) \/ StartsWith(raw, <<"t", "e", "l", ":">>) THEN raw
      ELSE IF StartsWith(raw, <<"j", "a", "v", "a", "s", "c", "r", "i", "p", "t", ":">>) THEN <<>>
      ELSE IF abs.ok THEN abs.href
      ELSE raw

toAbsoluteHttpUrl(urlLike, baseUrl) ==
  LET raw == Trim(urlLike)
      abs == ParseUrl(raw, baseUrl)
  IN  IF urlLike = <<>> THEN <<>>
      ELSE IF raw = <<>> THEN raw
      ELSE IF StartsWith(raw, <<"#">>) THEN raw
      ELSE IF StartsWith(raw, <<"m", "a", "i", "l", "t", "o", ":">>) \/ StartsWith(raw, <<"t", "e", "l", ":">>) THEN raw
      ELSE IF StartsWith(raw, <<"j", "a", "v", "a", "s", "c", "r", "i", "p", "t", ":">>) THEN <<>>
      ELSE IF abs.ok
      THEN (IF abs.protocol = <<"h", "t", "t", "p", ":">> \/ abs.protocol = <<"h", "t", "t", "p", "s", ":">> THEN abs.href ELSE raw)
      ELSE raw

\* an attribute of an element: absent, or present with a value
NoAttr == [has |-> FALSE, value |-> <<>>]

Attr(v) == [has |-> TRUE, value |-> v]

Element(tag, href, src) == [tag |-> tag, href |-> href, src |-> src]

\* if (abs) setAttribute(name, abs); else removeAttribute(name)
SetOrRemove(abs) == IF abs # <<>> THEN Attr(abs) ELSE NoAttr

\* the two loops: over a[href], then over img[src]
absolutizeDomUrls(root, baseUrl) ==
  [i \in 1..Len(root) |->
     LET e == root[i]
     IN  IF e.tag = "a" /\ e.href.has
         THEN [e EXCEPT !.href = SetOrRemove(toAbsoluteHttpUrl(e.href.value, baseUrl))]
         ELSE IF e.tag = "img" /\ e.src.has
         THEN [e EXCEPT !.src = SetOrRemove(toAbsoluteHttpUrl(e.src.value, baseUrl))]
         ELSE e]

(***************************************************************************)
(* The remote side: what a server may answer                               *)
(***************************************************************************)

\* the URLs given on the command line
InputUrls ==
  { Url("https:", <<"/", "d", "o", "c", "s", "/">>, "", ""),
    Url("https:", <<"/", "d", "o", "c", "s", "/", "p", "a", "g", "e">>, "?v=1", "#top"),
    Url("http:", <<"/", "a", ".", "m", "d">>, "", ""),
    Url("ftp:", <<"/", "d", "o", "c", "s", "/">>, "", ""),
    Url("", <<"d", "o", "c", "s">>, "", "") }

\* the bodies a server may send
Bodies ==
  { <<"#", " ", "H", "i", "\n", "\n", "\n", "\n", "t", "e", "x", "t", " ", " ", "\n">>,
    <<"<", "h", "t", "m", "l", ">", "<", "p", ">", "x">>,
    <<"#", " ", "T", "i", "t", "l", "e", "\n", "<", "b", "o", "d", "y", ">">>,
    <<"a", "\r", "\r", "\n", "b">>,
    <<>> }

\* the content-type headers a server may send ("" when it sends none)
ContentTypes ==
  { <<>>,
    <<"t", "e", "x", "t", "/", "m", "a", "r", "k", "d", "o", "w", "n">>,
    <<"t", "e", "x", "t", "/", "h", "t", "m", "l">>,
    <<"t", "e", "x", "t", "/", "p", "l", "a", "i", "n">> }

\* sniff reads up to this many bytes (8192 in the source, scaled down so that
\* bodies longer than the budget fit the model)
SniffMaxBytes == 5

\* the largest chunk one reader.read() delivers
MaxChunk == 3

\* what the extraction library may hand back for a page: the extracted title
\* and the content fragment, a sequence of elements with their text content
\* (the alt text of an image) and their href and src attributes
Titles == { <<>>, <<" ", "D", "o", "c", "\n">> }

Linked(tag, text, href, src) == [tag |-> tag, text |-> text, href |-> href, src |-> src]

Pages ==
  { [title |-> <<>>,
     content |-> << Linked("h1", <<"H", "i">>, NoAttr, NoAttr),
                    Linked("a", <<"n", "e", "x", "t">>, Attr(<<".", ".", "/", "n">>), NoAttr) >>],
    [title |-> <<" ", "D", "o", "c", "\n">>,
     content |-> << Linked("p", <<"C", "o", "p", "y">>, NoAttr, NoAttr),
                    Linked("img", <<"p", "i", "c">>, NoAttr, Attr(<<"/", "i", ".", "p", "n", "g">>)) >>],
    [title |-> <<" ", "D", "o", "c", "\n">>,
     content |-> << Linked("pre", <<"a", " ", "\n", "\n", "\n", "b">>, NoAttr, NoAttr),
                    Linked("a", <<"t", "o", "p">>, Attr(<<"#", "t", "o", "p">>), NoAttr) >>] }

(***************************************************************************)
(* State                                                                   *)
(***************************************************************************)

VARIABLES
  pc,      \* the await main() is suspended at, or "main", "done", "fatal"
  url,     \* the URL argument
  ci,      \* index of the sibling candidate being probed (0 before the loop)
  log,     \* the requests issued so far, in order
  conn,    \* per request: "headers" (awaited), "body" (stream open), "closed"
  timer,   \* indexes of the requests whose abort timer is armed
  stall,   \* the server has stopped answering the operation awaited now
  probe,   \* the last HEAD or sniff: how it ended, ok, content-type, preview
  full,    \* the last full GET: how it ended, ok, the text read
  rd,      \* readTextUpTo: the stream and the locals text and bytes
  output,  \* what was written to the primary output, in order
  call,    \* a function of the module applied on its own: its name and argument
  ret,     \* what the applied function returned, one entry per application
  opts,    \* the flags of the command line: debug and absolutizeLinks
  trace,   \* the lines written to the error stream, in order
  page     \* htmlToMarkdown: the locals title, contentHtml, fragBody and md

vars ==
  <<pc, url, ci, log, conn, timer, stall, probe, full, rd, output, call, ret,
    opts, trace, page>>

\* the flags of a run: none, --debug, or --no-abs-links
Options ==
  { [debug |-> FALSE, absolutizeLinks |-> TRUE],
    [debug |-> TRUE, absolutizeLinks |-> TRUE],
    [debug |-> FALSE, absolutizeLinks |-> FALSE] }

\* the URL given with flags
FlaggedUrl == Url("http:", <<"/", "a", ".", "m", "d">>, "", "")

\* the command lines: every URL without flags, and one URL with each flag
Invocations ==
  {inv \in [url : InputUrls, opts : Options] :
     inv.opts = [debug |-> FALSE, absolutizeLinks |-> TRUE] \/ inv.url = FlaggedUrl}

\* htmlToMarkdown is not running
NoPage == [title |-> <<>>, contentHtml |-> <<>>, fragBody |-> <<>>, md |-> <<>>]

\* main() runs; no function is applied on its own
NoCall == [fn |-> "main", arg |-> <<>>]

NoProbe == [kind |-> "none", ok |-> FALSE, ct |-> <<>>, preview |-> <<>>]

NoFull == [kind |-> "none", ok |-> FALSE, body |-> <<>>]

NoRd == [stream |-> FALSE, body |-> <<>>, pos |-> 0, text |-> <<>>, bytes |-> 0]

\* the three header sets of main()
Request(method, u, accept, range, stage) ==
  [method |-> method, url |-> u, accept |-> accept, range |-> range, stage |-> stage]

\* how an awaited fetch() may settle (a response without a body stream,
\* res.body = null, has the empty text)
HeadOutcomes ==
  {[kind |-> "response", ok |-> k, ct |-> c] : k \in BOOLEAN, c \in ContentTypes}
    \cup {[kind |-> "neterr", ok |-> FALSE, ct |-> <<>>],
          [kind |-> "timeout", ok |-> FALSE, ct |-> <<>>]}

SniffOutcomes ==
  {o \in [kind : {"response"}, ok : BOOLEAN, ct : ContentTypes, body : Bodies,
         stream : BOOLEAN] : ~o.stream => o.body = <<>>}
    \cup {[kind |-> "neterr", ok |-> FALSE, ct |-> <<>>, body |-> <<>>, stream |-> FALSE],
          [kind |-> "timeout", ok |-> FALSE, ct |-> <<>>, body |-> <<>>, stream |-> FALSE]}

\* pending: the body of the response is still to be transferred
GetOutcomes ==
  {[kind |-> "response", ok |-> k, pending |-> p] : k \in BOOLEAN, p \in BOOLEAN}
    \cup {[kind |-> "neterr", ok |-> FALSE, pending |-> FALSE],
          [kind |-> "timeout", ok |-> FALSE, pending |-> FALSE]}

\* how an awaited res.text() may settle
TextOutcomes ==
  {[kind |-> "text", body |-> b] : b \in Bodies} \cup {[kind |-> "readerror", body |-> <<>>]}

\* the abort timer can fire only while armed; the server answers unless stalled
Possible(o) == IF o.kind = "timeout" THEN Len(log) \in timer ELSE ~stall

Closed == [conn EXCEPT ![Len(conn)] = "closed"]

Streaming == [conn EXCEPT ![Len(conn)] = "body"]

Candidates == computeMarkdownSiblingUrls(url)

(***************************************************************************)
(* Transport                                                               *)
(***************************************************************************)

\* variant: a request is sent a second time
fetchWithTimeout_Resends(req, c, nextPc, i) ==
  /\ log' = log \o <<req, req>>
  /\ conn' = c \o <<"closed", "headers">>
  /\ timer' = {Len(log) + 2}
  /\ stall' = FALSE
  /\ pc' = nextPc
  /\ ci' = i

\* fetchWithTimeout up to its await: the timer is armed, the request is sent
\* (c is the state of the connections when the request is sent)
fetchWithTimeout(req, c, nextPc, i) ==
  /\ log' = Append(log, req)
  /\ conn' = Append(c, "headers")
  /\ timer' = {Len(log) + 1}
  /\ stall' = FALSE
  /\ pc' = nextPc
  /\ ci' = i

\* the fetch has settled and its timer is cleared (finally); main() goes on
\* to await something that is not a fetch, or ends
Settled(c, nextPc) ==
  /\ log' = log
  /\ conn' = c
  /\ timer' = {}
  /\ stall' = FALSE
  /\ pc' = nextPc
  /\ ci' = ci

head(u, stage, c, nextPc) ==
  fetchWithTimeout(Request("HEAD", u, "negotiated", FALSE, stage), c, nextPc, ci)

get(u, accept, stage, c, nextPc, i) ==
  fetchWithTimeout(Request("GET", u, accept, FALSE, stage), c, nextPc, i)

sniff(u, accept, stage, c, nextPc, i) ==
  fetchWithTimeout(Request("GET", u, accept, TRUE, stage), c, nextPc, i)

(***************************************************************************)
(* Converter (the part of htmlToMarkdown that is this program's code)      *)
(***************************************************************************)

\* the number of characters of S that s ends with / begins with
TrailingRun(s, S) ==
  CHOOSE n \in 0..Len(s) :
    /\ \A i \in (Len(s) - n + 1)..Len(s) : s[i] \in S
    /\ n < Len(s) => s[Len(s) - n] \notin S

LeadingRun(s, S) ==
  CHOOSE n \in 0..Len(s) :
    /\ \A i \in 1..n : s[i] \in S
    /\ n < Len(s) => s[n + 1] \notin S

DropTrailing(s, S) == SubSeq(s, 1, Len(s) - TrailingRun(s, S))

DropLeading(s, S) == SubSeq(s, LeadingRun(s, S) + 1, Len(s))

\* a child of the fragment's body: a block element and its text content
Node(tag, text) == [tag |-> tag, text |-> text]

\* the replacement of the rule preToFenced
preToFenced(node) ==
  LET code == node.text
      cleaned == DropTrailing(code, {"\n"})
  IN  <<"\n", "\n", Backtick, Backtick, Backtick, "\n">> \o cleaned
        \o <<"\n", Backtick, Backtick, Backtick, "\n", "\n">>

\* what the converter puts for a child: an image gives ![alt](src) and a
\* link [text](href), or its text alone without href; a blank block gives a
\* blank line; a
\* <pre> goes to the rule preToFenced, a heading to the ATX style, and a
\* paragraph of plain words is padded with blank lines
Replacement(node) ==
  IF node.tag = "img"
  THEN (IF node.src.has /\ node.src.value # <<>>
        THEN <<"!", "[">> \o node.text \o <<"]", "(">> \o node.src.value \o <<")">>
        ELSE <<>>)
  ELSE IF node.tag = "a"
  THEN (IF AllWs(node.text, 1, Len(node.text)) THEN <<>>
        ELSE IF node.href.has /\ node.href.value # <<>>
        THEN <<"[">> \o node.text \o <<"]", "(">> \o node.href.value \o <<")">>
        ELSE node.text)
  ELSE IF AllWs(node.text, 1, Len(node.text)) THEN <<"\n", "\n">>
  ELSE IF node.tag = "pre" THEN preToFenced(node)
  ELSE IF node.tag = "h1" THEN <<"\n", "\n", "#", " ">> \o node.text \o <<"\n", "\n">>
  ELSE <<"\n", "\n">> \o node.text \o <<"\n", "\n">>

\* the converter joins a replacement to the output so far with at most one
\* blank line between them
Join(out, replacement) ==
  LET nls == Max(TrailingRun(out, {"\n"}), LeadingRun(replacement, {"\n"}))
  IN  DropTrailing(out, {"\n"}) \o SubSeq(<<"\n", "\n">>, 1, Min(nls, 2))
        \o DropLeading(replacement, {"\n"})

RECURSIVE Reduce(_, _, _)
Reduce(nodes, i, out) ==
  IF i > Len(nodes) THEN out ELSE Reduce(nodes, i + 1, Join(out, Replacement(nodes[i])))

\* turndown.turndown(fragBody): the children converted in order, joined, and
\* the result stripped of leading newlines and trailing white space
turndown(fragBody) ==
  DropTrailing(DropLeading(Reduce(fragBody, 1, <<>>), {"\t", "\r", "\n"}), WhiteSpace)

\* title.replace(/\s+/g, " ")
CollapseWs(s) ==
  LET blanked == [i \in 1..Len(s) |-> IF s[i] \in WhiteSpace THEN " " ELSE s[i]]
  IN  Pick(blanked, {i \in 1..Len(s) :
                       ~(s[i] \in WhiteSpace /\ i > 1 /\ s[i - 1] \in WhiteSpace)})

\* md: the converted fragment, with the cleaned title before it unless it
\* begins with a heading already
WithTitle(extractedTitle, contentMd) ==
  LET title == Trim(CollapseWs(Trim(extractedTitle)))
      shouldAddTitle == title # <<>> /\ ~StartsWith(TrimStart(contentMd), <<"#", " ">>)
  IN  IF shouldAddTitle
      THEN <<"#", " ">> \o title \o <<"\n", "\n">> \o contentMd
      ELSE contentMd

\* htmlToMarkdown from the extracted title and the converted fragment on
htmlToMarkdown(extractedTitle, contentMd) ==
  normalizeMarkdown(stripUiNoiseMarkdown(WithTitle(extractedTitle, contentMd)))

(***************************************************************************)
(* Orchestrator: main()                                                    *)
(***************************************************************************)

\* variant: the status of the HEAD response is not looked at
NegotiatedByHeader_IgnoresOk(h) == isMarkdownContentType(h.ct)

\* h.ok && isMarkdownContentType(ct)
NegotiatedByHeader(h) == h.ok /\ isMarkdownContentType(h.ct)

\* variant: the preview is not tested for HTML
SniffAccepts_NoHtmlTest(p) ==
  /\ p.ok
  /\ \/ isMarkdownContentType(p.ct)
     \/ (isTextContentType(p.ct) /\ looksLikeMarkdown(p.preview))
     \/ looksLikeMarkdown(p.preview)

\* variant: a Markdown-looking preview counts only under a textual type
SniffAccepts_NeedsTextType(p) ==
  /\ p.ok
  /\ ~looksLikeHtml(p.preview)
  /\ \/ isMarkdownContentType(p.ct)
     \/ (isTextContentType(p.ct) /\ looksLikeMarkdown(p.preview))

\* the condition of stage 1b on the sniffed response
SniffAccepts(p) ==
  /\ p.ok
  /\ ~looksLikeHtml(p.preview)
  /\ \/ isMarkdownContentType(p.ct)
     \/ (isTextContentType(p.ct) /\ looksLikeMarkdown(p.preview))
     \/ looksLikeMarkdown(p.preview)

\* variant: the content-type is not tested for HTML
SiblingAccepts_NoTypeTest(p) ==
  /\ ~(~p.ok)
  /\ ~looksLikeHtml(p.preview)
  /\ ~(~looksLikeMarkdown(p.preview) /\ ~isMarkdownContentType(p.ct))

\* the three "continue" tests of the sibling loop on the sniffed response
SiblingAccepts(p) ==
  /\ ~(~p.ok)
  /\ ~(looksLikeHtml(p.preview) \/ isHtmlContentType(p.ct))
  /\ ~(~looksLikeMarkdown(p.preview) /\ ~isMarkdownContentType(p.ct))

\* if (!r.ok) throw / continue, on a full GET of stages 1 to 3
FullAccepts(r) == r.ok

\* variant: the status of the page's response is not looked at
HtmlAccepts_IgnoresOk(r) == TRUE

\* if (!htmlRes.ok) throw
HtmlAccepts(r) == r.ok

\* stage 1b begins: sniff the URL with the negotiated headers
EnterSniff(c) == sniff(url, "negotiated", 2, c, "s2_sniff", 0)

\* stage 3 (last resort): GET the URL as HTML
EnterHtml(c, i) == get(url, "html", 4, c, "s4_get", i)

\* the head of the sibling loop for candidate i; after the last one, stage 3
EnterSibling(i, c) ==
  IF i <= Len(Candidates)
  THEN sniff(Candidates[i], "sibling", 3, c, "s3_sniff", i)
  ELSE EnterHtml(c, i)

\* the operation ends: main() has returned, or thrown to main().catch
Exit(c, how) == Settled(c, how)

\* variant: stage 1b has no try/catch, its failures reach main().catch
Catch_Stage2Fatal(stage, c) ==
  CASE stage = 1 -> EnterSniff(c)
    [] stage = 2 -> Exit(c, "fatal")
    [] stage = 3 -> EnterSibling(ci + 1, c)
    [] stage = 4 -> Exit(c, "fatal")

\* where control goes when a step of the given stage throws (or continues)
Catch(stage, c) ==
  CASE stage = 1 -> EnterSniff(c)
    [] stage = 2 -> EnterSibling(1, c)
    [] stage = 3 -> EnterSibling(ci + 1, c)
    [] stage = 4 -> Exit(c, "fatal")

\* variant: the message is written whether or not the flag is given
debugLog_Always(enabled, msg) == <<msg>>

\* debugLog(enabled, msg): the lines it writes to the error stream
debugLog(enabled, msg) == IF enabled THEN <<msg>> ELSE <<>>

\* the lines the catch block reached from the given stage writes to the error
\* stream: the catch of stage 1, of stage 1b, of the loop body (none), and
\* main().catch, which writes the error whatever the flags
CatchSays(stage) ==
  CASE stage = 1 -> debugLog(opts.debug, "Negotiation HEAD failed")
    [] stage = 2 -> debugLog(opts.debug, "Negotiation sniff failed")
    [] stage = 3 -> <<>>
    [] stage = 4 -> <<"error">>

\* the step writes the given lines to the error stream
Says(lines) == trace' = trace \o lines

\* variant: the stage writes its output but does not return
writeOutput_NoReturn(text, raw, stage, c) ==
  /\ output' = Append(output, text)
  /\ full' = [kind |-> "text", ok |-> TRUE, body |-> raw]
  /\ Catch(stage, c)
  /\ Says(CatchSays(stage))

\* return await writeOutput(body, out), where body was made from the text
\* raw; the write itself may fail, which throws inside the try of the stage
writeOutput(text, raw, stage, c) ==
  \E written \in BOOLEAN :
    IF written
    THEN /\ output' = Append(output, text)
         /\ full' = [kind |-> "text", ok |-> TRUE, body |-> raw]
         /\ Exit(c, "done")
         /\ Says(<<>>)
    ELSE output' = output /\ full' = NoFull /\ Catch(stage, c) /\ Says(CatchSays(stage))

\* argument checks, then the HEAD of stage 1
Main ==
  /\ pc = "main"
  /\ IF isHttpUrl(url)
     THEN head(url, 1, conn, "s1_head") /\ Says(<<>>)
     ELSE Exit(conn, "fatal") /\ Says(CatchSays(4))
  /\ UNCHANGED <<call, ret, opts, url, probe, full, rd, output, page>>

\* stage 1: the HEAD settles
Stage1Head ==
  /\ pc = "s1_head"
  /\ \E o \in HeadOutcomes :
       /\ Possible(o)
       /\ probe' = [kind |-> o.kind, ok |-> o.ok, ct |-> o.ct, preview |-> <<>>]
       /\ IF o.kind = "response" /\ NegotiatedByHeader(o)
          THEN /\ get(url, "negotiated", 1, Closed, "s1_get", ci)
               /\ Says(debugLog(opts.debug, "HEAD")
                         \o debugLog(opts.debug, "Negotiated Markdown (content-type)"))
          ELSE IF o.kind = "response"
          THEN EnterSniff(Closed) /\ Says(debugLog(opts.debug, "HEAD"))
          ELSE Catch(1, Closed) /\ Says(CatchSays(1))
  /\ UNCHANGED <<call, ret, opts, url, full, rd, output, page>>

\* a full GET of stage 1, 1b or 2 settles
FullGet(stage, atPc, textPc) ==
  /\ pc = atPc
  /\ \E o \in GetOutcomes :
       /\ Possible(o)
       /\ IF o.kind = "response" /\ FullAccepts(o)
          THEN /\ full' = [kind |-> "response", ok |-> o.ok, body |-> <<>>]
               /\ Settled(Streaming, textPc)
               /\ Says(<<>>)
          ELSE /\ full' = NoFull
               /\ IF o.kind = "response"
                  THEN Catch(stage, IF o.pending THEN Streaming ELSE Closed)
                  ELSE Catch(stage, Closed)
               /\ Says(CatchSays(stage))
  /\ UNCHANGED <<call, ret, opts, url, probe, rd, output, page>>

\* await r.text() of a full GET settles; the text is normalized and written
FullText(stage, atPc) ==
  /\ pc = atPc
  /\ ~stall
  /\ \E t \in TextOutcomes :
       IF t.kind = "text"
       THEN writeOutput(normalizeMarkdown(t.body), t.body, stage, Closed)
       ELSE /\ output' = output /\ full' = NoFull
            /\ Catch(stage, Closed) /\ Says(CatchSays(stage))
  /\ UNCHANGED <<call, ret, opts, url, probe, rd, page>>

\* the GET of a sniff settles; readTextUpTo begins
SniffGet(stage, atPc, readPc) ==
  /\ pc = atPc
  /\ \E o \in SniffOutcomes :
       /\ Possible(o)
       /\ probe' = [kind |-> o.kind, ok |-> o.ok, ct |-> o.ct, preview |-> <<>>]
       /\ IF o.kind = "response"
          THEN /\ rd' = [stream |-> o.stream, body |-> o.body, pos |-> 0,
                         text |-> <<>>, bytes |-> 0]
               /\ Settled(Streaming, readPc)
               /\ Says(<<>>)
          ELSE rd' = NoRd /\ Catch(stage, Closed) /\ Says(CatchSays(stage))
  /\ UNCHANGED <<call, ret, opts, url, full, output, page>>

\* what main() does with the sniffed response p
AfterSniff(stage, p) ==
  IF stage = 2
  THEN IF SniffAccepts(p)
       THEN /\ get(url, "negotiated", 2, Closed, "s2_full", ci)
            /\ Says(debugLog(opts.debug, "Sniff")
                      \o debugLog(opts.debug, "Negotiated Markdown (sniff)"))
       ELSE EnterSibling(1, Closed) /\ Says(debugLog(opts.debug, "Sniff"))
  ELSE IF SiblingAccepts(p)
       THEN /\ get(Candidates[ci], "sibling", 3, Closed, "s3_full", ci)
            /\ Says(debugLog(opts.debug, "Sibling sniff")
                      \o debugLog(opts.debug, "Sibling Markdown"))
       ELSE EnterSibling(ci + 1, Closed) /\ Says(debugLog(opts.debug, "Sibling sniff"))

\* readTextUpTo returns text: the reader has been cancelled
SniffDone(stage, text) ==
  LET p == [probe EXCEPT !.kind = "read", !.preview = SliceTo(text, SniffMaxBytes)]
  IN  probe' = p /\ rd' = NoRd /\ AfterSniff(stage, p)

\* one await of readTextUpTo settles: reader.read(), or res.text() when the
\* body is not a stream
readTextUpTo(stage, atPc) ==
  /\ pc = atPc
  /\ ~stall
  /\ \/ \* the read fails: the reader is cancelled and the error thrown
        /\ probe' = [probe EXCEPT !.kind = "readerror"] /\ rd' = NoRd
        /\ Catch(stage, Closed) /\ Says(CatchSays(stage))
     \/ \* not a stream: the whole text, sliced
        ~rd.stream /\ SniffDone(stage, rd.body)
     \/ \* done
        rd.stream /\ rd.pos = Len(rd.body) /\ SniffDone(stage, rd.text)
     \/ \* a chunk of n bytes
        /\ rd.stream
        /\ \E n \in 1..MaxChunk :
             /\ rd.pos + n <= Len(rd.body)
             /\ LET bytes == rd.bytes + n
                    text == rd.text \o SubSeq(rd.body, rd.pos + 1, rd.pos + n)
                IN  IF bytes >= SniffMaxBytes
                    THEN SniffDone(stage, text)
                    ELSE /\ rd' = [rd EXCEPT !.pos = rd.pos + n, !.text = text, !.bytes = bytes]
                         /\ probe' = probe
                         /\ Settled(conn, atPc)
                         /\ Says(<<>>)
  /\ UNCHANGED <<call, ret, opts, url, full, output, page>>

Stage1Get == FullGet(1, "s1_get", "s1_text")

Stage1Text == FullText(1, "s1_text")

Stage2Sniff == SniffGet(2, "s2_sniff", "s2_read")

Stage2Read == readTextUpTo(2, "s2_read")

Stage2Full == FullGet(2, "s2_full", "s2_text")

Stage2Text == FullText(2, "s2_text")

Stage3Sniff == SniffGet(3, "s3_sniff", "s3_read")

Stage3Read == readTextUpTo(3, "s3_read")

Stage3Full == FullGet(3, "s3_full", "s3_text")

Stage3Text == FullText(3, "s3_text")

\* the stage-3 GET of the page settles
Stage4Get ==
  /\ pc = "s4_get"
  /\ \E o \in GetOutcomes :
       /\ Possible(o)
       /\ full' = [kind |-> o.kind, ok |-> o.ok, body |-> <<>>]
       /\ IF o.kind = "response" /\ HtmlAccepts(o)
          THEN Settled(Streaming, "s4_text") /\ Says(<<>>)
          ELSE IF o.kind = "response"
          THEN Exit(IF o.pending THEN Streaming ELSE Closed, "fatal") /\ Says(CatchSays(4))
          ELSE Exit(Closed, "fatal") /\ Says(CatchSays(4))
  /\ probe' = NoProbe
  /\ UNCHANGED <<call, ret, opts, url, rd, output, page>>

\* await htmlRes.text() settles and htmlToMarkdown begins: the page is parsed,
\* script, style and noscript are removed, Readability extracts the article
\* (or fails, and the body is taken), and the content is parsed again as a
\* fragment of its own; the text of the page is not kept, what is extracted
\* from it is drawn from Pages; the debug line says which of the two it was
Stage4Text ==
  /\ pc = "s4_text"
  /\ ~stall
  /\ \E t \in TextOutcomes :
       IF t.kind = "text"
       THEN \E p \in Pages :
              /\ page' = [title |-> p.title, contentHtml |-> p.content,
                          fragBody |-> p.content, md |-> <<>>]
              /\ full' = [kind |-> "text", ok |-> TRUE, body |-> <<>>]
              /\ Settled(Closed, "s4_absolutize")
              /\ Says(debugLog(opts.debug, "HTML -> Markdown"))
       ELSE /\ page' = page /\ full' = NoFull
            /\ Exit(Closed, "fatal") /\ Says(CatchSays(4))
  /\ UNCHANGED <<call, ret, opts, url, probe, rd, output>>

\* variant: the links are rewritten whether or not the flag allows it
absolutizeIfEnabled_Always(enabled, fragBody, baseUrl) ==
  absolutizeDomUrls(fragBody, baseUrl)

\* if (opts.absolutizeLinks) absolutizeDomUrls(fragBody, baseUrl)
absolutizeIfEnabled(enabled, fragBody, baseUrl) ==
  IF enabled THEN absolutizeDomUrls(fragBody, baseUrl) ELSE fragBody

\* a step of htmlToMarkdown: page and pc change, nothing else does
PageStep(nextPc) ==
  /\ Settled(conn, nextPc)
  /\ Says(<<>>)
  /\ UNCHANGED <<call, ret, opts, url, probe, full, rd, output>>

\* the links of the fragment are made absolute, if the flag allows it
Stage4Absolutize ==
  /\ pc = "s4_absolutize"
  /\ page' = [page EXCEPT
                !.fragBody = absolutizeIfEnabled(opts.absolutizeLinks, page.fragBody, url)]
  /\ PageStep("s4_turndown")

\* the fragment is converted and the title put before it
Stage4Turndown ==
  /\ pc = "s4_turndown"
  /\ page' = [page EXCEPT !.md = WithTitle(page.title, turndown(page.fragBody))]
  /\ PageStep("s4_strip")

\* stripUiNoiseMarkdown(md)
Stage4Strip ==
  /\ pc = "s4_strip"
  /\ page' = [page EXCEPT !.md = stripUiNoiseMarkdown(page.md)]
  /\ PageStep("s4_normalize")

\* normalizeMarkdown(...), and htmlToMarkdown returns: of its locals only
\* the result is left
Stage4Normalize ==
  /\ pc = "s4_normalize"
  /\ page' = [NoPage EXCEPT !.md = normalizeMarkdown(page.md)]
  /\ PageStep("s4_write")

\* await writeOutput(md, out)
Stage4Write ==
  /\ pc = "s4_write"
  /\ writeOutput(page.md, full.body, 4, conn)
  /\ page' = NoPage
  /\ UNCHANGED <<call, ret, opts, url, probe, rd>>

AwaitPcs ==
  {"s1_head", "s1_get", "s1_text", "s2_sniff", "s2_read", "s2_full", "s2_text",
   "s3_sniff", "s3_read", "s3_full", "s3_text", "s4_get", "s4_text"}

\* the server stops answering the operation main() awaits
ServerStall ==
  /\ pc \in AwaitPcs
  /\ ~stall
  /\ stall' = TRUE
  /\ UNCHANGED <<call, ret, opts, pc, url, ci, log, conn, timer, probe, full, rd, output>>
  /\ UNCHANGED <<trace, page>>

Init ==
  /\ pc = "main"
  /\ \E inv \in Invocations : url = inv.url /\ opts = inv.opts
  /\ ci = 0
  /\ log = <<>>
  /\ conn = <<>>
  /\ timer = {}
  /\ stall = FALSE
  /\ probe = NoProbe
  /\ full = NoFull
  /\ rd = NoRd
  /\ output = <<>>
  /\ call = NoCall
  /\ ret = <<>>
  /\ trace = <<>>
  /\ page = NoPage

Next ==
  \/ Main
  \/ Stage1Head
  \/ Stage1Get
  \/ Stage1Text
  \/ Stage2Sniff
  \/ Stage2Read
  \/ Stage2Full
  \/ Stage2Text
  \/ Stage3Sniff
  \/ Stage3Read
  \/ Stage3Full
  \/ Stage3Text
  \/ Stage4Get
  \/ Stage4Text
  \/ Stage4Absolutize
  \/ Stage4Turndown
  \/ Stage4Strip
  \/ Stage4Normalize
  \/ Stage4Write
  \/ ServerStall

Spec == Init /\ [][Next]_vars

(***************************************************************************)
(* The functions of the module applied on their own, to bounded inputs     *)
(***************************************************************************)

\* the longest text given to normalizeMarkdown
MaxTextLen == 5

\* the sequences over S of length up to n
SeqsUpTo(S, n) == UNION {[1..k -> S] : k \in 0..n}

\* texts with lone carriage returns, CR/LF runs and white-space-only lines
NormalizeInputs == SeqsUpTo({"a", " ", "\n", "\r"}, MaxTextLen)

NormalizeCalls == {[fn |-> "normalizeMarkdown", arg |-> x] : x \in NormalizeInputs}

\* main() does not run: the state of the cascade stays as constructed
Idle ==
  /\ UNCHANGED <<pc, url, ci, log, conn, timer, stall, probe, full, rd, output>>
  /\ UNCHANGED <<opts, trace, page>>
  /\ call' = call

\* normalizeMarkdown is applied to the argument, then to its own result
Apply_normalizeMarkdown ==
  /\ pc = "call"
  /\ call.fn = "normalizeMarkdown"
  /\ Len(ret) < 2
  /\ ret' = Append(ret, normalizeMarkdown(IF ret = <<>> THEN call.arg ELSE ret[Len(ret)]))
  /\ Idle

\* the concatenation of the sequences of ss
RECURSIVE Flatten(_)
Flatten(ss) == IF Len(ss) = 0 THEN <<>> ELSE Head(ss) \o Flatten(Tail(ss))

\* the most parts a path given to computeMarkdownSiblingUrls is made of
MaxPathParts == 2

\* what the path of a URL is made of, after its leading "/"
PathParts ==
  { <<"/">>,
    <<"d", "o", "c", "s", "/">>,
    <<"p", "a", "g", "e">>,
    <<".", "m", "d">>,
    <<".", "M", "D">>,
    <<".", "m", "a", "r", "k", "d", "o", "w", "n">>,
    <<".", "M", "a", "r", "k", "D", "o", "w", "n">> }

\* http(s) URLs, with and without query and fragment
UrlInputs ==
  { Url(p, <<"/">> \o Flatten(t), s, h) :
      p \in {"http:", "https:"}, t \in SeqsUpTo(PathParts, MaxPathParts),
      s \in {"", "?v=1"}, h \in {"", "#top"} }

SiblingCalls == {[fn |-> "computeMarkdownSiblingUrls", arg |-> u] : u \in UrlInputs}

Apply_computeMarkdownSiblingUrls ==
  /\ pc = "call"
  /\ call.fn = "computeMarkdownSiblingUrls"
  /\ ret = <<>>
  /\ ret' = <<computeMarkdownSiblingUrls(call.arg)>>
  /\ Idle

\* the most lines of a text given to stripUiNoiseMarkdown
MaxLines == 3

\* lines of a converted page: UI chrome in several spellings, fence markers,
\* ordinary text, an empty line, a line ended by CR
LineSamples ==
  { <<"C", "o", "p", "y">>,
    <<"c", "o", "p", "y", " ", "p", "a", "g", "e">>,
    <<"C", "O", "P", "I", "E", "D">>,
    <<" ", "c", "o", "p", "i", "e", "d", "!", " ">>,
    <<"C", "o", "p", "y", " ", "t", "o", " ", "c", "l", "i", "p", "b", "o", "a", "r", "d">>,
    <<"L", "o", "a", "d", "i", "n", "g", ".", ".", ".">>,
    <<"c", "o", "p", "y", " ", "t", "h", "a", "t">>,
    <<>>,
    <<Backtick, Backtick, Backtick>>,
    <<" ", " ", Backtick, Backtick, Backtick, "j", "s">>,
    <<"C", "o", "p", "y", "\r">> }

\* the argument is kept as its lines; the function is given them joined by LF
StripCalls ==
  {[fn |-> "stripUiNoiseMarkdown", arg |-> ls] : ls \in SeqsUpTo(LineSamples, MaxLines)}

\* stripUiNoiseMarkdown is applied to the argument, then to its own result
Apply_stripUiNoiseMarkdown ==
  /\ pc = "call"
  /\ call.fn = "stripUiNoiseMarkdown"
  /\ Len(ret) < 2
  /\ ret' = Append(ret, stripUiNoiseMarkdown(IF ret = <<>> THEN JoinLines(call.arg) ELSE ret[1]))
  /\ Idle

\* the most parts of a text given to looksLikeHtml
MaxHtmlParts == 3

DoctypePart == <<"<", "!", "D", "O", "C", "T", "Y", "P", "E", " ", "h", "t", "m", "l", ">">>

\* what a sniffed preview may be made of: Markdown, inline HTML, white space
\* and the marks of an HTML document
HtmlParts ==
  { <<"#", " ", "T", "\n">>,
    <<" ", "\n">>,
    <<"<", "d", "i", "v", ">", "x", "<", "/", "d", "i", "v", ">">>,
    <<"<", "h", "e", "a", "d", "e", "r", ">">>,
    DoctypePart,
    <<"<", "h", "t", "m", "l">>,
    <<"<", "?", "x", "m", "l">>,
    <<"<", "b", "o", "d", "y", ">">>,
    <<"<", "H", "E", "A", "D", ">">>,
    <<"<", "/", "h", "t", "m", "l", ">">>,
    <<"<", "/", "B", "o", "d", "y", ">">> }

\* the argument is kept as its parts; the function is given them concatenated
HtmlCalls == {[fn |-> "looksLikeHtml", arg |-> ps] : ps \in SeqsUpTo(HtmlParts, MaxHtmlParts)}

Apply_looksLikeHtml ==
  /\ pc = "call"
  /\ call.fn = "looksLikeHtml"
  /\ ret = <<>>
  /\ ret' = <<looksLikeHtml(Flatten(call.arg))>>
  /\ Idle

\* the most elements of a fragment given to absolutizeDomUrls
MaxElements == 2

\* values of href and src attributes
AttrValues ==
  { <<>>,
    <<" ">>,
    <<"#", "t", "o", "p">>,
    <<" ", "#", "t", "o", "p">>,
    <<"m", "a", "i", "l", "t", "o", ":", "a", "@", "b">>,
    <<"t", "e", "l", ":", "1">>,
    <<"j", "a", "v", "a", "s", "c", "r", "i", "p", "t", ":", "x">>,
    <<" ", "j", "a", "v", "a", "s", "c", "r", "i", "p", "t", ":", "x">>,
    <<"/", "x">>,
    <<"x">>,
    <<"h", "t", "t", "p", "s", ":", "/", "/", "b", ".", "c", "o", "m", "/", "y">>,
    <<"f", "t", "p", ":", "/", "/", "x">>,
    <<"h", "t", "t", "p", ":", "/", "/", "a", " ", "b">> }

\* elements of a content fragment that carry href or src
LinkElements ==
  {Element("a", Attr(v), NoAttr) : v \in AttrValues}
    \cup {Element("img", NoAttr, Attr(v)) : v \in AttrValues}
    \cup {Element("iframe", NoAttr, Attr(v)) : v \in {<<"/", "x">>, <<"j", "a", "v", "a", "s", "c", "r", "i", "p", "t", ":", "x">>}}

\* the base of the page: htmlRes.url || url
BaseUrl == Url("https:", <<"/", "p", "/">>, "", "")

AbsolutizeCalls ==
  {[fn |-> "absolutizeDomUrls", arg |-> es] : es \in SeqsUpTo(LinkElements, MaxElements)}

Apply_absolutizeDomUrls ==
  /\ pc = "call"
  /\ call.fn = "absolutizeDomUrls"
  /\ ret = <<>>
  /\ ret' = <<absolutizeDomUrls(call.arg, BaseUrl)>>
  /\ Idle

\* the most children of a fragment given to htmlToMarkdown
MaxNodes == 2

\* text contents of <pre> elements: the example, a run of blank lines, a line
\* ending in spaces, a UI-chrome word, a backtick line, a blank one
PreTexts ==
  { <<"c", "o", "n", "s", "o", "l", "e", ".", "l", "o", "g", "(", "1", ")", "\n", "\n", "\n">>,
    <<"a", "\n", "\n", "\n", "\n", "b">>,
    <<"a", " ", " ", "\n", "b">>,
    <<"C", "o", "p", "y">>,
    <<Backtick, Backtick, Backtick, "\n", "C", "o", "p", "y">>,
    <<"\n">> }

\* children of the content fragment
ContentNodes ==
  {Node("pre", t) : t \in PreTexts}
    \cup {Node("p", <<"t", "e", "x", "t">>), Node("p", <<"C", "o", "p", "y">>), Node("h1", <<"T", "o", "p">>)}

\* the page as the extraction hands it over: the title and the fragment
ConvertCalls ==
  {[fn |-> "htmlToMarkdown", arg |-> [title |-> t, body |-> b]] :
     t \in Titles, b \in SeqsUpTo(ContentNodes, MaxNodes)}

Apply_htmlToMarkdown ==
  /\ pc = "call"
  /\ call.fn = "htmlToMarkdown"
  /\ ret = <<>>
  /\ ret' = <<htmlToMarkdown(call.arg.title, turndown(call.arg.body))>>
  /\ Idle

\* the most lines of a text given to looksLikeMarkdown
MaxMdLines == 2

\* lines that show one of the six patterns on their own
PatternLines ==
  { <<"#", " ", "H", "e", "a", "d", "i", "n", "g">>,
    <<" ", " ", "#", " ", "H">>,
    <<"-", "-", "-">>,
    <<" ", "-", "-", "-", " ">>,
    <<Backtick, Backtick, Backtick, "j", "s">>,
    <<"a", " ", Backtick, Backtick, Backtick, " ", "b">>,
    <<"-", " ", "i", "t", "e", "m">>,
    <<"*", " ", "i", "t", "e", "m">>,
    <<"1", ".", " ", "i", "t", "e", "m">>,
    <<"s", "e", "e", " ", "[", "t", "e", "x", "t", "]", "(", "u", "r", "l", ")">> }

\* the shortest line for each pattern, placed at the end of the scanned part
ShortPatternLines ==
  { <<"#", " ", "H">>,
    <<"-", "-", "-">>,
    <<Backtick, Backtick, Backtick>>,
    <<"-", " ", "i">>,
    <<"1", ".", " ", "i">>,
    <<"[", "t", "]", "(", "u", ")">> }

\* lines that show none: near misses of each pattern, and plain text
PlainLines ==
  { <<"#", "#", " ", "H", "e", "a", "d", "i", "n", "g">>,
    <<"#", "H", "e", "a", "d", "i", "n", "g">>,
    <<"-", "-", "-", "-">>,
    <<"-", "i", "t", "e", "m">>,
    <<"1", ")", " ", "i", "t", "e", "m">>,
    <<"[", "]", "(", "u", "r", "l", ")">>,
    <<"t", "e", "x", "t", " ", "#", " ", "H">>,
    <<"p", "l", "a", "i", "n", " ", "t", "e", "x", "t">>,
    <<>> }

\* a marker with nothing after it on its line
LoneMarkerLines == { <<"#">> }

\* n characters of plain text
Filler(n) == [i \in 1..n |-> "a"]

\* the argument is a line of skip plain characters (left out when skip is 0)
\* followed by the given lines; with three characters short of the scanned
\* length skipped, the line break and a line of three characters end right
\* at the limit, and with one more skipped the line is cut
MarkdownCalls ==
  {[fn |-> "looksLikeMarkdown", arg |-> [skip |-> 0, lines |-> ls]] :
     ls \in SeqsUpTo(PatternLines \cup PlainLines \cup LoneMarkerLines, MaxMdLines)}
    \cup {[fn |-> "looksLikeMarkdown", arg |-> [skip |-> n, lines |-> <<l>>]] :
            n \in {MarkdownScanChars - 4, MarkdownScanChars - 3}, l \in ShortPatternLines}

\* the text of the argument
MarkdownText(arg) ==
  IF arg.skip = 0 THEN JoinLines(arg.lines)
  ELSE Filler(arg.skip) \o <<"\n">> \o JoinLines(arg.lines)

Apply_looksLikeMarkdown ==
  /\ pc = "call"
  /\ call.fn = "looksLikeMarkdown"
  /\ ret = <<>>
  /\ ret' = <<looksLikeMarkdown(MarkdownText(call.arg))>>
  /\ Idle

\* the most characters of a body given to readTextUpTo
MaxBodyChars == 3

\* UTF-8: a character of two bytes, its lead and continuation byte, and the
\* character the decoder puts for bytes that are no character
TwoByteChar == "U+00E9"

LeadByte == "C3"

ContinuationByte == "A9"

ReplacementChar == "U+FFFD"

\* the bytes of a text
RECURSIVE Encode(_)
Encode(text) ==
  IF text = <<>> THEN <<>>
  ELSE (IF Head(text) = TwoByteChar THEN <<LeadByte, ContinuationByte>> ELSE <<Head(text)>>)
         \o Encode(Tail(text))

\* decoder.decode(value, { stream: true }) from byte i on: the characters the
\* bytes complete, and the bytes of an unfinished character held back
RECURSIVE DecodeFrom(_, _, _, _)
DecodeFrom(value, i, held, out) ==
  IF i > Len(value) THEN [text |-> out, held |-> held]
  ELSE IF held = <<>>
  THEN (IF value[i] = LeadByte THEN DecodeFrom(value, i + 1, <<LeadByte>>, out)
        ELSE IF value[i] = ContinuationByte
        THEN DecodeFrom(value, i + 1, <<>>, Append(out, ReplacementChar))
        ELSE DecodeFrom(value, i + 1, <<>>, Append(out, value[i])))
  ELSE (IF value[i] = ContinuationByte
        THEN DecodeFrom(value, i + 1, <<>>, Append(out, TwoByteChar))
        ELSE DecodeFrom(value, i, <<>>, Append(out, ReplacementChar)))

\* decoder.decode(): the end of the input, held bytes are no character
DecodeEnd(held) == IF held = <<>> THEN <<>> ELSE <<ReplacementChar>>

\* readTextUpTo is applied to a streamed body of the given text with a byte
\* budget: none, less than a character, or that of sniff
ReadCalls ==
  {[fn |-> "readTextUpTo", arg |-> [text |-> t, maxBytes |-> m]] :
     t \in SeqsUpTo({"a", TwoByteChar}, MaxBodyChars), m \in {0, 1, SniffMaxBytes}}

\* the reader of the body: stream is whether it is open, body the bytes, pos
\* the bytes delivered, reads the calls of reader.read(); text, bytes and
\* held are the locals text and bytes and the state of the decoder
Reader(body) ==
  [stream |-> TRUE, body |-> body, pos |-> 0, text |-> <<>>, bytes |-> 0,
   held |-> <<>>, reads |-> 0]

\* finally { await reader.cancel() }, then what the function hands back: the
\* error of the read, or the text with the end of the decoding, sliced
Return(r, thrown) ==
  /\ rd' = [r EXCEPT !.stream = FALSE]
  /\ ret' = <<[thrown |-> thrown,
               cancelled |-> TRUE,
               text |-> IF thrown THEN <<>>
                        ELSE SliceTo(r.text \o DecodeEnd(r.held), call.arg.maxBytes)]>>

\* readTextUpTo on a stream: getReader(), then one turn of the loop for each
\* step, a chunk being any number of bytes from 1 to MaxChunk
Apply_readTextUpTo ==
  /\ pc = "call"
  /\ call.fn = "readTextUpTo"
  /\ ret = <<>>
  /\ IF rd = NoRd
     THEN rd' = Reader(Encode(call.arg.text)) /\ ret' = ret
     ELSE IF ~(rd.bytes < call.arg.maxBytes)
     THEN Return(rd, FALSE)
     ELSE LET r == [rd EXCEPT !.reads = rd.reads + 1]
          IN  \/ \* reader.read() rejects
                 Return(r, TRUE)
              \/ \* done
                 r.pos = Len(r.body) /\ Return(r, FALSE)
              \/ \* a chunk of n bytes
                 \E n \in 1..MaxChunk :
                   /\ r.pos + n <= Len(r.body)
                   /\ LET d == DecodeFrom(SubSeq(r.body, r.pos + 1, r.pos + n), 1, r.held, <<>>)
                          next == [r EXCEPT !.pos = r.pos + n, !.bytes = r.bytes + n,
                                            !.text = r.text \o d.text, !.held = d.held]
                      IN  IF next.bytes >= call.arg.maxBytes
                          THEN Return(next, FALSE)
                          ELSE rd' = next /\ ret' = ret
  /\ UNCHANGED <<pc, url, ci, log, conn, timer, stall, probe, full, output>>
  /\ UNCHANGED <<opts, trace, page, call>>

LibInit ==
  /\ pc = "call"
  /\ url = Url("https:", <<"/">>, "", "")
  /\ ci = 0
  /\ log = <<>>
  /\ conn = <<>>
  /\ timer = {}
  /\ stall = FALSE
  /\ probe = NoProbe
  /\ full = NoFull
  /\ rd = NoRd
  /\ output = <<>>
  /\ ret = <<>>
  /\ opts = [debug |-> FALSE, absolutizeLinks |-> TRUE]
  /\ trace = <<>>
  /\ page = NoPage
  /\ \/ call \in NormalizeCalls
     \/ call \in SiblingCalls
     \/ call \in StripCalls
     \/ call \in HtmlCalls
     \/ call \in AbsolutizeCalls
     \/ call \in ConvertCalls
     \/ call \in MarkdownCalls
     \/ call \in ReadCalls

LibNext ==
  \/ Apply_normalizeMarkdown
  \/ Apply_computeMarkdownSiblingUrls
  \/ Apply_stripUiNoiseMarkdown
  \/ Apply_looksLikeHtml
  \/ Apply_absolutizeDomUrls
  \/ Apply_htmlToMarkdown
  \/ Apply_looksLikeMarkdown
  \/ Apply_readTextUpTo

Lib == LibInit /\ [][LibNext]_vars

(***************************************************************************)
(* Properties                                                              *)
(***************************************************************************)

Stage1Pcs == {"s1_head", "s1_get", "s1_text"}

Stage2Pcs == {"s2_sniff", "s2_read", "s2_full", "s2_text"}

Stage3Pcs == {"s3_sniff", "s3_read", "s3_full", "s3_text"}

Stage4Pcs ==
  {"s4_get", "s4_text", "s4_absolutize", "s4_turndown", "s4_strip", "s4_normalize",
   "s4_write"}

NoRequest == [method |-> "", url |-> url, accept |-> "", range |-> FALSE, stage |-> 0]

LastRequest == IF Len(log) = 0 THEN NoRequest ELSE log[Len(log)]

\* the stage whose request came last (0 before any request)
LastStage == LastRequest.stage

IsSniff(r) == r.method = "GET" /\ r.range

IsFullGet(r) == r.method = "GET" /\ ~r.range

HtmlGet == Request("GET", url, "html", FALSE, 4)

\* the requests whose response has neither completed nor been cancelled or aborted
InFlight == {i \in 1..Len(conn) : conn[i] # "closed"}

\* the k-th request of the given stage that satisfies Test
NthOfStage(stage, Test(_), k) ==
  CHOOSE i \in 1..Len(log) :
    /\ log[i].stage = stage /\ Test(log[i])
    /\ Cardinality({j \in 1..i : log[j].stage = stage /\ Test(log[j])}) = k

\* C1: the stages run in the order 1 (HEAD), 2 (sniff), 3 (siblings), 4
\* (HTML): the log starts with the HEAD, stage numbers never decrease, a
\* stage's request is preceded by one of the stage before it, a request is
\* issued only while nothing has been output, and once the output has been
\* written the operation is over: no further request, no second output.
C1_CascadeOrder ==
  /\ [](/\ Len(log) >= 1 => log[1] = Request("HEAD", url, "negotiated", FALSE, 1)
        /\ \A i, j \in 1..Len(log) : i < j => log[i].stage <= log[j].stage
        /\ \A j \in 1..Len(log) :
             log[j].stage > 1 => \E i \in 1..(j - 1) : log[i].stage = log[j].stage - 1
        /\ output # <<>> => pc = "done" /\ Len(output) = 1)
  /\ [][/\ Len(log') > Len(log) => output = <<>> /\ output' = <<>>
        /\ output # <<>> => log' = log /\ output' = output /\ pc' = pc]_vars

\* a sibling produced the output after stage 1 and stage 2 each fetched and failed
C1_Witness ==
  /\ pc = "done"
  /\ Len(output) = 1
  /\ LastStage = 3
  /\ \E i \in 1..Len(log) : log[i].stage = 1 /\ log[i].method = "GET"
  /\ \E i \in 1..Len(log) : log[i].stage = 2 /\ IsFullGet(log[i])

\* C2: for an http(s) URL no failure of stages 1 to 3 is fatal: the operation
\* ends in the fatal state only from stage 4; every step taken in stages 1 to
\* 3 stays in the cascade or ends with the output written; and when stage 3
\* is left without output the step that leaves it issues the stage-4 GET of
\* the original URL.
C2_FailuresFallThrough ==
  /\ [](pc = "fatal" => ~isHttpUrl(url) \/ LastStage = 4)
  /\ [][/\ pc \in Stage1Pcs \cup Stage2Pcs \cup Stage3Pcs
             => pc' \in AwaitPcs \/ (pc' = "done" /\ output' # <<>>)
        /\ pc \in Stage1Pcs /\ pc' \notin Stage1Pcs \cup {"done"}
             => pc' = "s2_sniff" /\ IsSniff(log'[Len(log')]) /\ log'[Len(log')].url = url
        /\ pc \in Stage2Pcs /\ pc' \notin Stage2Pcs \cup {"done"}
             => pc' = "s3_sniff" /\ log'[Len(log')].url = Candidates[1]
        /\ pc \in Stage3Pcs /\ pc' \notin Stage3Pcs \cup {"done"}
             => pc' = "s4_get" /\ log' = Append(log, HtmlGet)]_vars

\* the stage-4 GET is awaited after a failed full GET in each of stages 1 to 3
C2_Witness ==
  /\ pc = "s4_get"
  /\ LastRequest = HtmlGet
  /\ output = <<>>
  /\ \A st \in 1..3 : \E i \in 1..Len(log) : log[i].stage = st /\ IsFullGet(log[i])

\* C3: when the stage-4 GET fails (network error, timeout, or a response
\* that is not ok) the operation ends in the fatal state, and nothing has
\* been or is written to the primary output; the body is read only of an ok
\* response.
C3_HtmlFetchFailureFatal ==
  /\ [](/\ pc = "s4_text" => full.kind = "response" /\ full.ok
        /\ pc = "fatal" => output = <<>>)
  /\ [][pc = "s4_get" /\ pc' # "s4_get"
          => /\ pc' = "s4_text" <=> (full'.kind = "response" /\ full'.ok)
             /\ pc' # "s4_text" => pc' = "fatal" /\ output' = <<>>]_vars

\* the stage-4 GET was answered with a status that is not ok
C3_Witness ==
  /\ pc = "fatal"
  /\ LastRequest = HtmlGet
  /\ full.kind = "response" /\ ~full.ok
  /\ output = <<>>

\* the Markdown invariant of the data model, for one text
EndsWithOneNewline(t) ==
  /\ Len(t) >= 1 /\ t[Len(t)] = "\n"
  /\ Len(t) >= 2 => t[Len(t) - 1] # "\n"

NoCrLf(t) == ~Includes(t, <<"\r", "\n">>)

NoBlankLineRun(t) == ~Includes(t, <<"\n", "\n", "\n">>)

NoTrailingBlanks(t) ==
  \A i \in 1..Len(t) : t[i] \in SpaceTab => i < Len(t) /\ t[i + 1] # "\n"

\* C4: every text written to the output ends with exactly one newline, has
\* no CRLF, has no run of three or more newlines and has no line that ends
\* in a space or tab.
C4_OutputNormalForm ==
  \A k \in 1..Len(output) :
    /\ EndsWithOneNewline(output[k])
    /\ NoCrLf(output[k])
    /\ NoBlankLineRun(output[k])
    /\ NoTrailingBlanks(output[k])

\* a stage from 1 to 3 has returned the text of its full GET as the output
ReturnedDirectly == pc = "done" /\ LastStage \in 1..3

\* C5: no stage from 1 to 3 outputs a body that is classified as HTML, by
\* its content or by the content-type of the response the stage decided on.
C5_NoHtmlReturnedAsMarkdown ==
  ReturnedDirectly => ~(looksLikeHtml(full.body) \/ isHtmlContentType(probe.ct))

\* C5 as amended: the stages that classify a preview, 2 and 3, go on to the
\* full GET (and so to the output) only with a sniffed preview that does not
\* look like HTML, and stage 3 only with a sniff content-type that is not
\* HTML, whatever Markdown signs the preview or the type carry.
C5_HtmlPreviewNeverAccepted ==
  (pc \in {"s2_full", "s2_text", "s3_full", "s3_text"} \/ (pc = "done" /\ LastStage \in 2..3))
    => /\ probe.kind = "read"
       /\ ~looksLikeHtml(probe.preview)
       /\ LastStage = 3 => ~isHtmlContentType(probe.ct)

\* stage 2 declined an HTML-looking preview that came with a Markdown
\* content-type, and the cascade went on to the first sibling
C5_Witness ==
  /\ pc = "s3_sniff" /\ ci = 1
  /\ Len(log) >= 2 /\ log[Len(log) - 1].stage = 2 /\ IsSniff(log[Len(log) - 1])
  /\ probe.kind = "read" /\ probe.ok
  /\ looksLikeHtml(probe.preview)
  /\ isMarkdownContentType(probe.ct)

\* the HEAD was answered ok with a Markdown content-type
HeadNegotiated == probe.kind = "response" /\ probe.ok /\ isMarkdownContentType(probe.ct)

Stage1GetRequest == Request("GET", url, "negotiated", FALSE, 1)

\* C6: stage 1 GETs the URL exactly when the HEAD is ok with a Markdown
\* type; and once it has issued that GET, the output is the normalized text
\* of the GET and no later stage runs.
C6_Stage1AlwaysReturns ==
  /\ pc = "s1_get" => HeadNegotiated /\ LastRequest = Stage1GetRequest
  /\ pc = "s2_sniff" /\ Len(log) = 2 => ~HeadNegotiated
  /\ (\E i \in 1..Len(log) : log[i] = Stage1GetRequest)
       => /\ \A j \in 1..Len(log) : log[j].stage = 1
          /\ pc = "done" => output = <<normalizeMarkdown(full.body)>>

\* C6 as amended: stage 1 GETs the URL exactly when the HEAD is ok with a
\* Markdown type; when that GET is answered ok, its text is read and the
\* write succeeds, the output is the normalized text of the GET and no later
\* stage has run (the example text gives "# Hi\n\ntext\n"); a later stage
\* runs after the GET only when the GET did not produce the output.
C6_Stage1 ==
  /\ pc = "s1_get" => HeadNegotiated /\ LastRequest = Stage1GetRequest
  /\ pc = "s2_sniff" /\ Len(log) = 2 => ~HeadNegotiated
  /\ pc = "s1_text" => full.kind = "response" /\ full.ok
  /\ pc = "done" /\ LastStage = 1
       => /\ log = <<Request("HEAD", url, "negotiated", FALSE, 1), Stage1GetRequest>>
          /\ output = <<normalizeMarkdown(full.body)>>
          /\ full.body = <<"#", " ", "H", "i", "\n", "\n", "\n", "\n", "t", "e", "x", "t", " ", " ", "\n">>
               => output = << <<"#", " ", "H", "i", "\n", "\n", "t", "e", "x", "t", "\n">> >>
  /\ pc = "s2_sniff" /\ Len(log) = 3 => HeadNegotiated /\ log[2] = Stage1GetRequest /\ output = <<>>

\* stage 1 returned the example text, normalized
C6_Witness ==
  /\ pc = "done" /\ LastStage = 1
  /\ full.body = <<"#", " ", "H", "i", "\n", "\n", "\n", "\n", "t", "e", "x", "t", " ", " ", "\n">>
  /\ output = << <<"#", " ", "H", "i", "\n", "\n", "t", "e", "x", "t", "\n">> >>

\* the condition of stage 2 as the specification words it
Stage2Condition(p) ==
  /\ p.ok
  /\ ~looksLikeHtml(p.preview)
  /\ \/ isMarkdownContentType(p.ct)
     \/ (isTextContentType(p.ct) /\ looksLikeMarkdown(p.preview))
     \/ looksLikeMarkdown(p.preview)

Stage2FullRequest == Request("GET", url, "negotiated", FALSE, 2)

\* the request before the last one
PrevRequest == IF Len(log) < 2 THEN NoRequest ELSE log[Len(log) - 1]

\* the cascade has just left stage 2 for the first sibling
LeftStage2 == pc = "s3_sniff" /\ ci = 1 /\ PrevRequest.stage = 2

\* C7: stage 2 issues the full GET exactly when the sniff was read and the
\* condition holds; and once it has issued the full GET, its normalized text
\* is returned, so that no request of a later stage follows it.
C7_Stage2AlwaysReturns ==
  /\ pc = "s2_full" => probe.kind = "read" /\ Stage2Condition(probe)
  /\ LeftStage2 /\ IsSniff(PrevRequest) => ~(probe.kind = "read" /\ Stage2Condition(probe))
  /\ (\E i \in 1..Len(log) : log[i] = Stage2FullRequest)
       => /\ \A j \in 1..Len(log) : log[j].stage <= 2
          /\ pc = "done" => output = <<normalizeMarkdown(full.body)>>

\* C7 as amended: stage 2 issues the full GET exactly when the sniff was
\* read and the condition holds; when that GET is answered ok, its text is
\* read and the write succeeds, the output is its normalized text; when the
\* full GET fails, and in every case where it is not issued, the cascade goes
\* on to the first sibling with nothing output.
C7_Stage2 ==
  /\ pc = "s2_full" => probe.kind = "read" /\ Stage2Condition(probe) /\ LastRequest = Stage2FullRequest
  /\ LeftStage2 /\ IsSniff(PrevRequest) => ~(probe.kind = "read" /\ Stage2Condition(probe))
  /\ LeftStage2 /\ IsFullGet(PrevRequest) => probe.kind = "read" /\ Stage2Condition(probe)
  /\ LeftStage2 => output = <<>>
  /\ pc = "s2_text" => full.kind = "response" /\ full.ok
  /\ pc = "done" /\ LastStage = 2
       => LastRequest = Stage2FullRequest /\ output = <<normalizeMarkdown(full.body)>>

\* the full GET of stage 2 is awaited on the strength of the preview alone:
\* the type is neither Markdown nor textual
C7_Witness ==
  /\ pc = "s2_full"
  /\ ~isMarkdownContentType(probe.ct) /\ ~isTextContentType(probe.ct)
  /\ looksLikeMarkdown(probe.preview)

\* the three skip tests of stage 3 as the specification words them
SiblingPasses(p) ==
  /\ p.ok
  /\ ~(looksLikeHtml(p.preview) \/ isHtmlContentType(p.ct))
  /\ (looksLikeMarkdown(p.preview) \/ isMarkdownContentType(p.ct))

\* the sniffs of stage 3 so far are those of the candidates 1..ci, in order,
\* and a full GET of stage 3 comes right after the sniff of the same candidate
SiblingsInOrder ==
  /\ Cardinality({i \in 1..Len(log) : log[i].stage = 3 /\ IsSniff(log[i])}) =
       (IF pc \in Stage3Pcs \/ LastStage = 3 THEN ci
        ELSE IF LastStage = 4 THEN Len(Candidates) ELSE 0)
  /\ \A k \in 1..Len(Candidates) :
       Cardinality({i \in 1..Len(log) : log[i].stage = 3 /\ IsSniff(log[i])}) >= k
         => log[NthOfStage(3, IsSniff, k)] = Request("GET", Candidates[k], "sibling", TRUE, 3)
  /\ \A i \in 1..Len(log) :
       log[i].stage = 3 /\ IsFullGet(log[i])
         => i > 1 /\ log[i - 1] = [log[i] EXCEPT !.range = TRUE]

\* the cascade has just gone past a candidate of stage 3
PastCandidate == (pc = "s3_sniff" /\ ci >= 2) \/ pc = "s4_get"

\* C8: the candidates are sniffed one at a time in the generator's order; a
\* candidate goes to the full GET exactly when its sniff was read and passes
\* the three tests; and after the full GET of a candidate no later candidate
\* is requested, the normalized text of that GET being the output.
C8_FirstPassingSiblingReturns ==
  /\ SiblingsInOrder
  /\ pc = "s3_full" => probe.kind = "read" /\ SiblingPasses(probe)
  /\ PastCandidate /\ IsSniff(PrevRequest) /\ PrevRequest.stage = 3
       => ~(probe.kind = "read" /\ SiblingPasses(probe))
  /\ \A i \in 1..Len(log) :
       log[i].stage = 3 /\ IsFullGet(log[i]) => \A j \in (i + 1)..Len(log) : log[j].stage # 3
  /\ pc = "done" /\ LastStage = 3 => output = <<normalizeMarkdown(full.body)>>

\* C8 as amended: the candidates are sniffed one at a time in the
\* generator's order; a candidate goes to the full GET exactly when its sniff
\* was read and passes the three tests; when that GET is answered ok, its
\* text is read and the write succeeds, its normalized text is the output and
\* no later candidate is requested; when the full GET fails the loop goes on
\* with the next candidate (or stage 4) with nothing output.
C8_Stage3 ==
  /\ SiblingsInOrder
  /\ pc = "s3_full"
       => /\ probe.kind = "read" /\ SiblingPasses(probe)
          /\ LastRequest = Request("GET", Candidates[ci], "sibling", FALSE, 3)
  /\ PastCandidate /\ IsSniff(PrevRequest) /\ PrevRequest.stage = 3
       => ~(probe.kind = "read" /\ SiblingPasses(probe))
  /\ PastCandidate /\ IsFullGet(PrevRequest) /\ PrevRequest.stage = 3
       => probe.kind = "read" /\ SiblingPasses(probe) /\ output = <<>>
  /\ pc = "s3_text" => full.kind = "response" /\ full.ok
  /\ pc = "done" /\ LastStage = 3
       => /\ LastRequest = Request("GET", Candidates[ci], "sibling", FALSE, 3)
          /\ output = <<normalizeMarkdown(full.body)>>

\* the second candidate produced the output, after the first candidate had
\* been sniffed and had not
C8_Witness ==
  /\ pc = "done" /\ LastStage = 3 /\ ci = 2
  /\ Len(log) >= 3 /\ log[Len(log) - 2].stage = 3 /\ IsSniff(log[Len(log) - 2])
  /\ log[Len(log) - 2].url = Candidates[1]

\* C9: at most one network request is in flight at any time.
C9_OneRequestInFlight == Cardinality(InFlight) <= 1

\* C10: a request the server has stalled has its abort timer armed, so that
\* the stall ends with an abort and the operation goes on.
C10_StalledRequestIsAborted == stall => Len(log) \in timer

\* the input is an absolute URL with scheme http or https
ValidInput == url.protocol \in {"http:", "https:"}

\* C11: an input that is not a parsable absolute http(s) URL is rejected:
\* the first step of main() ends the operation in the fatal state, and at no
\* time is a request issued or anything written to the output.
C11_InvalidUrlRejected ==
  /\ [](~ValidInput => log = <<>> /\ conn = <<>> /\ output = <<>> /\ pc \in {"main", "fatal"})
  /\ [][pc = "main" /\ ~ValidInput => pc' = "fatal" /\ log' = <<>> /\ output' = <<>>]_vars

\* an input that does not parse as a URL has been rejected
C11_Witness == pc = "fatal" /\ url.protocol = "" /\ log = <<>> /\ output = <<>>

\* what identifies a request on the wire: method, URL and headers
Wire(r) == [method |-> r.method, url |-> r.url, accept |-> r.accept, range |-> r.range]

\* C12: no request is issued a second time: any two requests of the log
\* differ in method, URL or headers.
C12_NoRequestIssuedTwice ==
  \A i, j \in 1..Len(log) : i < j => Wire(log[i]) # Wire(log[j])

\* C13: normalizeMarkdown is idempotent: applied to its own result it
\* returns that result.
C13_NormalizeIdempotent ==
  call.fn = "normalizeMarkdown" /\ Len(ret) = 2 => ret[2] = ret[1]

\* the siblings of u as the specification lists them
ExpectedSiblings(u) ==
  LET p == u.pathname
      at(q) == [protocol |-> u.protocol, host |-> u.host, pathname |-> q,
                search |-> "", hash |-> ""]
      endsNoCase(suffix) ==
        /\ Len(p) >= Len(suffix)
        /\ ToLowerCase(SubSeq(p, Len(p) - Len(suffix) + 1, Len(p))) = suffix
  IN  IF p[Len(p)] = "/"
      THEN << at(p \o <<"i", "n", "d", "e", "x", ".", "m", "d">>),
              at(p \o <<"R", "E", "A", "D", "M", "E", ".", "m", "d">>),
              at(p \o <<"i", "n", "d", "e", "x", ".", "m", "a", "r", "k", "d", "o", "w", "n">>) >>
      ELSE (IF endsNoCase(<<".", "m", "d">>) THEN <<>>
            ELSE <<at(p \o <<".", "m", "d">>)>>)
             \o (IF endsNoCase(<<".", "m", "a", "r", "k", "d", "o", "w", "n">>) THEN <<>>
                 ELSE <<at(p \o <<".", "m", "a", "r", "k", "d", "o", "w", "n">>)>>)

\* C14: computeMarkdownSiblingUrls returns the listed candidates in the
\* listed order: at most 3, no duplicate, each an absolute http(s) URL of the
\* same host without query and fragment; /docs/ gives index.md, README.md,
\* index.markdown and /docs/page gives page.md, page.markdown.
C14_SiblingUrls ==
  call.fn = "computeMarkdownSiblingUrls" /\ Len(ret) = 1
    => LET c == ret[1]
           path(i) == c[i].pathname
       IN  /\ c = ExpectedSiblings(call.arg)
           /\ Len(c) <= 3
           /\ \A i, j \in 1..Len(c) : i < j => c[i] # c[j]
           /\ \A i \in 1..Len(c) :
                /\ c[i].protocol = call.arg.protocol /\ c[i].host = call.arg.host
                /\ c[i].search = "" /\ c[i].hash = ""
           /\ call.arg.pathname = <<"/", "d", "o", "c", "s", "/">>
                => /\ Len(c) = 3
                   /\ path(1) = <<"/", "d", "o", "c", "s", "/", "i", "n", "d", "e", "x", ".", "m", "d">>
                   /\ path(2) = <<"/", "d", "o", "c", "s", "/", "R", "E", "A", "D", "M", "E", ".", "m", "d">>
                   /\ path(3) = <<"/", "d", "o", "c", "s", "/", "i", "n", "d", "e", "x",
                                  ".", "m", "a", "r", "k", "d", "o", "w", "n">>
           /\ call.arg.pathname = <<"/", "d", "o", "c", "s", "/", "p", "a", "g", "e">>
                => /\ Len(c) = 2
                   /\ path(1) = <<"/", "d", "o", "c", "s", "/", "p", "a", "g", "e", ".", "m", "d">>
                   /\ path(2) = <<"/", "d", "o", "c", "s", "/", "p", "a", "g", "e",
                                  ".", "m", "a", "r", "k", "d", "o", "w", "n">>

\* the siblings of a URL with query and fragment whose path ends in .MD have
\* been computed: the .md candidate is left out
C14_Witness ==
  /\ call.fn = "computeMarkdownSiblingUrls" /\ Len(ret) = 1
  /\ call.arg.pathname = <<"/", "p", "a", "g", "e", ".", "M", "D">>
  /\ call.arg.search = "?v=1" /\ call.arg.hash = "#top"
  /\ Len(ret[1]) = 1
  /\ ret[1][1].pathname = <<"/", "p", "a", "g", "e", ".", "M", "D", ".", "m", "a", "r", "k", "d", "o", "w", "n">>

\* the UI-chrome strings as the specification lists them
UiChromeStrings ==
  { <<"c", "o", "p", "y">>,
    <<"c", "o", "p", "y", " ", "p", "a", "g", "e">>,
    <<"c", "o", "p", "i", "e", "d">>,
    <<"c", "o", "p", "i", "e", "d", "!">>,
    <<"c", "o", "p", "y", " ", "t", "o", " ", "c", "l", "i", "p", "b", "o", "a", "r", "d">>,
    <<"l", "o", "a", "d", "i", "n", "g", ".", ".", ".">> }

\* line i of the text made of the lines ls, a CRLF line end read as LF
LfLine(ls, i) ==
  IF i < Len(ls) /\ Len(ls[i]) >= 1 /\ ls[i][Len(ls[i])] = "\r"
  THEN SubSeq(ls[i], 1, Len(ls[i]) - 1)
  ELSE ls[i]

\* the line starts, after white space, with the triple-backtick marker
IsFenceLine(l) == StartsWith(Trim(l), <<Backtick, Backtick, Backtick>>)

\* the trimmed line equals a UI-chrome string, case-insensitively
IsNoiseLine(l) == ToLowerCase(Trim(l)) \in UiChromeStrings

\* line i lies inside a fenced region: an odd number of marker lines precede it
InFence(ls, i) ==
  Cardinality({j \in 1..(i - 1) : IsFenceLine(LfLine(ls, j))}) % 2 = 1

\* C17: stripUiNoiseMarkdown removes exactly the UI-chrome lines that lie
\* outside every fenced region: a chrome line inside a fenced region, a
\* marker line and every other line are returned unchanged and in order.
C17_NoiseRemovedOutsideFences ==
  call.fn = "stripUiNoiseMarkdown" /\ Len(ret) = 1
    => LET ls == call.arg
           lines == [i \in 1..Len(ls) |-> LfLine(ls, i)]
           kept == {i \in 1..Len(ls) :
                      IsFenceLine(lines[i]) \/ InFence(ls, i) \/ ~IsNoiseLine(lines[i])}
       IN  ret[1] = JoinLines(Pick(lines, kept))

\* a Copy line before a fence was removed and a Copy line inside it was kept
C17_Witness ==
  /\ call.fn = "stripUiNoiseMarkdown" /\ Len(ret) = 1
  /\ call.arg = << <<"C", "o", "p", "y">>, <<Backtick, Backtick, Backtick>>, <<"C", "o", "p", "y">> >>
  /\ ret[1] = <<Backtick, Backtick, Backtick, "\n", "C", "o", "p", "y">>

InlineDiv == <<"<", "d", "i", "v", ">", "x", "<", "/", "d", "i", "v", ">">>

InlineHeader == <<"<", "h", "e", "a", "d", "e", "r", ">">>

OpeningHeadOrBody == { <<"<", "b", "o", "d", "y", ">">>, <<"<", "H", "E", "A", "D", ">">> }

ClosingTags == { <<"<", "/", "h", "t", "m", "l", ">">>, <<"<", "/", "B", "o", "d", "y", ">">> }

Prologues == { DoctypePart, <<"<", "h", "t", "m", "l">>, <<"<", "?", "x", "m", "l">> }

HasPart(ps, S) == \E i \in 1..Len(ps) : ps[i] \in S

\* the first part of ps that is not white space is in S
FirstPartIn(ps, S) ==
  \E i \in 1..Len(ps) :
    /\ ps[i] \in S
    /\ \A j \in 1..(i - 1) : ps[j] = <<" ", "\n">>

\* C20: looksLikeHtml returns false for every text with an inline <div> that
\* has no <head> tag, no <body> tag (opening or closing) and no doctype.
C20_InlineHtmlIsNotHtml ==
  /\ call.fn = "looksLikeHtml" /\ Len(ret) = 1
  /\ HasPart(call.arg, {InlineDiv})
  /\ ~HasPart(call.arg, OpeningHeadOrBody \cup {DoctypePart, <<"<", "/", "B", "o", "d", "y", ">">>})
  => ret[1] = FALSE

\* C20 as amended: looksLikeHtml returns false for every text with inline
\* tags such as <div> or <header> that does not begin (after white space)
\* with a doctype, <html or <?xml, has no opening <head or <body tag, and
\* does not both begin with "<" and hold a closing </html>, </head> or
\* </body> tag.
C20_LooksLikeHtmlConservative ==
  /\ call.fn = "looksLikeHtml" /\ Len(ret) = 1
  /\ HasPart(call.arg, {InlineDiv, InlineHeader})
  /\ ~FirstPartIn(call.arg, Prologues)
  /\ ~HasPart(call.arg, OpeningHeadOrBody)
  /\ ~(FirstPartIn(call.arg, HtmlParts \ { <<"#", " ", "T", "\n">>, <<" ", "\n">> })
         /\ HasPart(call.arg, ClosingTags))
  => ret[1] = FALSE

\* a heading followed by an inline <div> and a <header> was classified as
\* not HTML
C20_Witness ==
  /\ call.fn = "looksLikeHtml"
  /\ call.arg = << <<"#", " ", "T", "\n">>, InlineDiv, InlineHeader >>
  /\ ret = <<FALSE>>

\* v starts with "#", "mailto:", "tel:" (left unchanged) or "javascript:"
StartsWithFragment(v) == Len(v) >= 1 /\ v[1] = "#"

StartsWithMailOrTel(v) ==
  \/ Len(v) >= 7 /\ SubSeq(v, 1, 7) = <<"m", "a", "i", "l", "t", "o", ":">>
  \/ Len(v) >= 4 /\ SubSeq(v, 1, 4) = <<"t", "e", "l", ":">>

StartsWithJavascript(v) == Len(v) >= 11 /\ SubSeq(v, 1, 11) = <<"j", "a", "v", "a", "s", "c", "r", "i", "p", "t", ":">>

AttrNames == {"href", "src"}

\* absolutizeDomUrls was applied: call.arg is the fragment before, ret[1] after
Absolutized == call.fn = "absolutizeDomUrls" /\ Len(ret) = 1

\* C15: for every element and each of its href and src attributes: an empty
\* value, a value starting with "#" and a value starting with mailto: or
\* tel: are left unchanged; a value starting with javascript: has the
\* attribute removed; and the attribute is removed in no other case.
C15_AttributeRules ==
  Absolutized =>
    \A i \in 1..Len(call.arg) : \A n \in AttrNames :
      LET before == call.arg[i][n]
          after == ret[1][i][n]
          v == before.value
      IN  before.has =>
            /\ v = <<>> => after = before
            /\ StartsWithFragment(v) => after = before
            /\ StartsWithMailOrTel(v) => after = before
            /\ StartsWithJavascript(v) => ~after.has
            /\ ~after.has => StartsWithJavascript(v)

\* the attribute n of an element with the given tag is one the step looks at
Processed(tag, n) == (tag = "a" /\ n = "href") \/ (tag = "img" /\ n = "src")

IsAbsoluteHttp(v) ==
  \/ Len(v) >= 7 /\ SubSeq(v, 1, 7) = <<"h", "t", "t", "p", ":", "/", "/">>
  \/ Len(v) >= 8 /\ SubSeq(v, 1, 8) = <<"h", "t", "t", "p", "s", ":", "/", "/">>

Converted == call.fn = "htmlToMarkdown" /\ Len(ret) = 1

\* the heading line the title " Doc\n" gives, with its blank line
TitlePrefix == IF call.arg.title = <<>> THEN <<>> ELSE <<"#", " ", "D", "o", "c", "\n", "\n">>

Fence == <<Backtick, Backtick, Backtick>>

\* the text x without the newlines it ends with
WithoutTrailingNewlines(x) ==
  SubSeq(x, 1, CHOOSE n \in 0..Len(x) :
                 /\ n > 0 => x[n] # "\n"
                 /\ \A i \in (n + 1)..Len(x) : x[i] = "\n")

\* C18: the output for a body holding only a <pre> is the title heading (if
\* any) followed by a fenced block whose content is exactly the text of the
\* <pre> without its trailing newlines, whatever that text is.
C18_PreFencedVerbatim ==
  Converted /\ Len(call.arg.body) = 1 /\ call.arg.body[1].tag = "pre"
    => ret[1] = TitlePrefix \o Fence \o <<"\n">>
                  \o WithoutTrailingNewlines(call.arg.body[1].text)
                  \o <<"\n">> \o Fence \o <<"\n">>

\* C19: with a non-empty title the output begins with a level-1 ATX
\* heading: the title heading when the converted body does not begin with
\* one, and then no second level-1 heading follows it at the top; the body's
\* own heading, with nothing prefixed, when the body begins with one.
C19_TitlePrefixedOnce ==
  Converted /\ call.arg.title # <<>>
    => LET contentMd == turndown(call.arg.body)
           bodyHasHeading == StartsWith(TrimStart(contentMd), <<"#", " ">>)
       IN  /\ StartsWith(ret[1], <<"#", " ">>)
           /\ ~bodyHasHeading
                => /\ StartsWith(ret[1], <<"#", " ", "D", "o", "c", "\n">>)
                   /\ ~StartsWith(ret[1], <<"#", " ", "D", "o", "c", "\n", "\n">> \o <<"#", " ">>)
           /\ bodyHasHeading => ~StartsWith(ret[1], <<"#", " ", "D", "o", "c", "\n">>)

\* looksLikeMarkdown was applied
Classified == call.fn = "looksLikeMarkdown" /\ Len(ret) = 1

\* some line of ls shows one of the six patterns
HasPatternLine(ls) == \E i \in 1..Len(ls) : ls[i] \in PatternLines \cup ShortPatternLines

\* a lone marker line of ls is followed, after blank lines only, by a line
\* that is not blank
HasLoneMarkerBeforeText(ls) ==
  \E i \in 1..Len(ls) : \E j \in (i + 1)..Len(ls) :
    /\ ls[i] \in LoneMarkerLines
    /\ ls[j] # <<>>
    /\ \A m \in (i + 1)..(j - 1) : ls[m] = <<>>

\* the lines of the argument end within the scanned characters
WithinScan(arg) ==
  arg.skip = 0 \/ arg.skip + 1 + Len(JoinLines(arg.lines)) <= MarkdownScanChars

\* C21: looksLikeMarkdown returns true for every input that contains a
\* heading line, a rule line, a fence marker, a bullet item, a numbered item
\* or an inline link, and false when the first 4000 characters hold none.
C21_PatternsDetected ==
  Classified =>
    /\ HasPatternLine(call.arg.lines) => ret[1] = TRUE
    /\ ~(HasPatternLine(call.arg.lines) /\ WithinScan(call.arg)) => ret[1] = FALSE

\* C21 as amended: looksLikeMarkdown returns true exactly when one of the
\* six patterns lies within the first 4000 characters, where the white space
\* after a heading, bullet or number marker may include line breaks (a lone
\* "#" line followed by a text line counts); a pattern cut by or beyond the
\* 4000th character is not seen, and the near misses ("## Heading",
\* "#Heading", "----", "-item", "1) item", "[](url)", a "#" in mid-line)
\* give false.
C21_LooksLikeMarkdown ==
  Classified =>
    ret[1] = (/\ WithinScan(call.arg)
              /\ HasPatternLine(call.arg.lines) \/ HasLoneMarkerBeforeText(call.arg.lines))

\* a heading line cut by the 4000th character was not seen
C21_Witness ==
  /\ Classified
  /\ call.arg = [skip |-> MarkdownScanChars - 3, lines |-> << <<"#", " ", "H">> >>]
  /\ ret = <<FALSE>>

\* the steps of htmlToMarkdown, by the position main() is at before each
ExtractPc == "s4_text"

AbsolutizePc == "s4_absolutize"

ConvertPc == "s4_turndown"

StripPc == "s4_strip"

NormalizePc == "s4_normalize"

\* the href of a link and the src of an image of the fragment, in order
LinkValues(fragBody) ==
  [i \in 1..Len(fragBody) |->
     IF fragBody[i].tag = "a" THEN fragBody[i].href
     ELSE IF fragBody[i].tag = "img" THEN fragBody[i].src
     ELSE NoAttr]

\* every link of the fragment is absolute, or points into the page itself
LinksResolved(fragBody) ==
  \A i \in 1..Len(fragBody) :
    LinkValues(fragBody)[i].has
      => \/ IsAbsoluteHttp(LinkValues(fragBody)[i].value)
         \/ StartsWithFragment(LinkValues(fragBody)[i].value)

\* C22: in stage 4 the steps run in the order Extractor, Link Absolutizer,
\* Converter, strip-UI-noise, Normalizer, then the write: the absolutizer
\* works on the extracted fragment and is done before the conversion starts,
\* it changes no href or src when absolutizeLinks is disabled, and what
\* stages 1 to 3 write is the normalized body and nothing else (no page is
\* extracted before stage 4).
C22_Stage4Order ==
  /\ [](/\ pc \notin Stage4Pcs \ {"s4_get", "s4_text"} => page = NoPage
        /\ pc \in {AbsolutizePc, ConvertPc} => page.md = <<>>
        /\ pc = AbsolutizePc => page.fragBody = page.contentHtml
        /\ pc = ConvertPc /\ opts.absolutizeLinks => LinksResolved(page.fragBody)
        /\ pc \in {ConvertPc, StripPc, NormalizePc} /\ ~opts.absolutizeLinks
             => LinkValues(page.fragBody) = LinkValues(page.contentHtml)
        /\ pc = "done" /\ LastStage \in 1..3 => output = <<normalizeMarkdown(full.body)>>)
  /\ [][/\ pc = ExtractPc /\ pc' # pc => pc' \in {AbsolutizePc, "fatal"}
        /\ pc = AbsolutizePc => pc' = ConvertPc /\ page'.md = page.md
        /\ pc = ConvertPc => pc' = StripPc /\ page'.fragBody = page.fragBody
        /\ pc = StripPc
             => /\ pc' = NormalizePc
                /\ page'.fragBody = page.fragBody
                /\ Len(page'.md) <= Len(page.md)
        /\ pc = NormalizePc => pc' = "s4_write" /\ output' = <<>>
        /\ pc = "s4_write" => pc' \in {"done", "fatal"} /\ output' \in {<<>>, <<page.md>>}
        /\ pc \notin Stage4Pcs /\ output' # output => LastStage \in 1..3]_vars

\* a page was converted with absolutizeLinks disabled and written with its
\* relative link as it was
C22_Witness ==
  /\ pc = "done"
  /\ LastStage = 4
  /\ ~opts.absolutizeLinks
  /\ Includes(output[1], <<"]", "(", ".", ".", "/", "n", ")">>)

\* a page was converted with absolutizeLinks enabled and written with its
\* link made absolute
C22_WitnessEnabled ==
  /\ pc = "done"
  /\ LastStage = 4
  /\ opts.absolutizeLinks
  /\ Includes(output[1], <<"]", "(", "h", "t", "t", "p">>)

\* readTextUpTo is being applied / has returned or thrown
Reading == call.fn = "readTextUpTo"

ReadReturned == Reading /\ Len(ret) = 1

\* the number of bytes of the body a decoded text stands for (the character
\* put for an unfinished one stands for its lead byte)
RECURSIVE BytesOf(_)
BytesOf(text) ==
  IF text = <<>> THEN 0
  ELSE (IF Head(text) = TwoByteChar THEN 2 ELSE 1) + BytesOf(Tail(text))

\* C23: readTextUpTo on a streamed body, for every chunking, asks for no
\* chunk once the bytes consumed have reached maxBytes, returns text that
\* stands for at most maxBytes bytes of the body, and has cancelled the
\* stream when it returns or throws.
C23_ReadIsCapped ==
  /\ [](ReadReturned
          => /\ ret[1].cancelled /\ ~rd.stream
             /\ ~ret[1].thrown => BytesOf(ret[1].text) <= call.arg.maxBytes)
  /\ [][Reading /\ rd # NoRd /\ rd'.reads > rd.reads => rd.bytes < call.arg.maxBytes]_vars

\* the positions of the log that hold a request of the given stage and kind
Issued(stage, method, range) ==
  {i \in 1..Len(log) :
     log[i].stage = stage /\ log[i].method = method /\ log[i].range = range}

\* the URLs asked for in stage 3
SiblingsTried == {log[i].url : i \in {k \in 1..Len(log) : log[k].stage = 3}}

\* C24: one invocation issues at most 11 requests whatever the server does:
\* in stage 1 one HEAD and at most one GET, in stage 2 one sniff and at most
\* one full GET, in stage 3 at most one sniff and one full GET for each of at
\* most 3 sibling candidates, and in stage 4 one GET, issued at most once.
C24_RequestsBounded ==
  /\ Len(log) <= 11
  /\ Cardinality(Issued(1, "HEAD", FALSE)) <= 1
  /\ Cardinality(Issued(1, "GET", FALSE)) <= 1
  /\ Cardinality(Issued(2, "GET", TRUE)) <= 1
  /\ Cardinality(Issued(2, "GET", FALSE)) <= 1
  /\ Cardinality(SiblingsTried) <= 3
  /\ \A u \in SiblingsTried :
       /\ Cardinality({i \in Issued(3, "GET", TRUE) : log[i].url = u}) <= 1
       /\ Cardinality({i \in Issued(3, "GET", FALSE) : log[i].url = u}) <= 1
  /\ Cardinality(Issued(4, "GET", FALSE)) <= 1
  /\ \A i \in 1..Len(log) :
       i \in Issued(1, "HEAD", FALSE) \cup Issued(1, "GET", FALSE) \cup Issued(2, "GET", TRUE)
               \cup Issued(2, "GET", FALSE) \cup Issued(3, "GET", TRUE)
               \cup Issued(3, "GET", FALSE) \cup Issued(4, "GET", FALSE)

\* every stage has issued every request it can: 11 requests, the last one
\* the GET of the page
C24_Witness ==
  /\ Len(log) = 11
  /\ LastStage = 4
  /\ Cardinality(SiblingsTried) = 3

\* the line main().catch writes for the error that ended the run
ErrorLine == "error"

\* the lines debugLog writes
DebugLines ==
  {"HEAD", "Negotiated Markdown (content-type)", "Negotiation HEAD failed",
   "Sniff", "Negotiated Markdown (sniff)", "Negotiation sniff failed",
   "Sibling sniff", "Sibling Markdown", "HTML -> Markdown"}

\* the lines of the error stream from position n + 1 on
Since(n) == SubSeq(trace', n + 1, Len(trace'))

C25_WitnessSilent ==
  /\ ~opts.debug
  /\ pc = "done"
  /\ LastStage = 3
  /\ Len(output) = 1
  /\ trace = <<>>

\* stripUiNoiseMarkdown was applied once (ret[1]) and again to its result (ret[2])
StrippedTwice == call.fn = "stripUiNoiseMarkdown" /\ Len(ret) = 2

\* the lines are separated by LF alone: none but the last may end in CR
LfSeparated(ls) ==
  \A i \in 1..(Len(ls) - 1) : ls[i] = <<>> \/ ls[i][Len(ls[i])] # "\r"

\* line i of ls lies inside a fenced region
InsideFence(ls, i) ==
  Cardinality({j \in 1..(i - 1) : IsFenceLine(ls[j])}) % 2 = 1

\* C26: stripUiNoiseMarkdown only deletes lines: for an input whose lines
\* are separated by LF, the output is made of some of the input lines, in
\* their order and unchanged; every line left out is a UI-noise line outside
\* a fence; no line that opens or closes a fence is left out; and applying
\* the function to its own output changes nothing.
C26_OnlyDeletesLines ==
  StrippedTwice /\ LfSeparated(call.arg)
    => /\ \E kept \in SUBSET (1..Len(call.arg)) :
            /\ ret[1] = JoinLines(Pick(call.arg, kept))
            /\ \A i \in 1..Len(call.arg) :
                 /\ i \notin kept
                      => IsNoiseLine(call.arg[i]) /\ ~InsideFence(call.arg, i)
                 /\ IsFenceLine(call.arg[i]) => i \in kept
       /\ ret[2] = ret[1]

\* of three lines the chrome line outside the fence was deleted, the marker
\* line with its indentation and the last line were kept, and the second
\* application changed nothing
C26_Witness ==
  /\ StrippedTwice
  /\ call.arg = << <<" ", "c", "o", "p", "i", "e", "d", "!", " ">>,
                   <<" ", " ", Backtick, Backtick, Backtick, "j", "s">>,
                   <<"C", "o", "p", "y">> >>
  /\ ret[1] = <<" ", " ", Backtick, Backtick, Backtick, "j", "s", "\n", "C", "o", "p", "y">>
  /\ ret[2] = ret[1]

====
